---- MODULE Spec2Model ----
(***************************************************************************)
(* A model of the Obfuscator class of node-obfuscator: the configuration   *)
(* resolver (deep merge, name check, base inheritance, cycle detection),   *)
(* the key cache and the encode / decode protocol.                         *)
(*                                                                         *)
(* Names, settings values and error messages are TLA+ strings; a string    *)
(* the program computes with (a value to encode, a token, a decoded text)  *)
(* is a text, the sequence of its characters; a Buffer is a sequence of    *)
(* bytes (0..255).                                                         *)
(* Time is counted in seconds since the epoch (Date.parse and Date.now     *)
(* count milliseconds; the model keeps one tick per second so that the     *)
(* instants of this century fit a 32-bit integer).                         *)
(***************************************************************************)
EXTENDS Integers, Sequences, FiniteSets, TLC

\* const x = v; F(x): the value v is computed once and named in F
Let(v, F(_)) == CHOOSE y \in {F(x) : x \in {v}} : TRUE

(***************************************************************************)
(* Text and bytes: Buffer.from(text, encoding), buffer.toString(encoding)  *)
(***************************************************************************)

\* The characters of codes 32..95 and 97..126, in code order.
AsciiLow == " !\"#$%&'()*+,-./0123456789:;<=>?@ABCDEFGHIJKLMNOPQRSTUVWXYZ[\\]^_"
AsciiHigh == "abcdefghijklmnopqrstuvwxyz{|}~"

\* What a byte that is no character of the two tables decodes to (U+FFFD
\* for an invalid byte; the model does not tell the remaining ones apart).
Replacement == "\f"

HexDigits == "0123456789abcdef"
HexUpper == "0123456789ABCDEF"
B64Chars == "ABCDEFGHIJKLMNOPQRSTUVWXYZabcdefghijklmnopqrstuvwxyz0123456789+/"

\* the i-th character of a name or a settings value
CharAt(s, i) == SubSeq(s, i, i)

Chars(s) == {CharAt(s, i) : i \in 1..Len(s)}

IndexIn(c, table) == CHOOSE i \in 1..Len(table) : CharAt(table, i) = c

\* the characters of a name or a settings value, as a text
Text(s) == [i \in 1..Len(s) |-> CharAt(s, i)]

\* code of a character, as a table
OrdTable ==
    [c \in Chars(AsciiLow) \cup Chars(AsciiHigh) |->
        IF c \in Chars(AsciiLow) THEN 31 + IndexIn(c, AsciiLow)
                                 ELSE 96 + IndexIn(c, AsciiHigh)]

\* U+FFFD is encoded as EF BF BD
Utf8Of(c) == IF c \in DOMAIN OrdTable THEN <<OrdTable[c]>> ELSE <<239, 191, 189>>

RECURSIVE Utf8Range(_, _, _)
Utf8Range(text, lo, hi) ==
    IF lo > hi THEN <<>>
    ELSE IF lo = hi THEN Utf8Of(text[lo])
    ELSE LET mid == (lo + hi) \div 2
         IN Utf8Range(text, lo, mid) \o Utf8Range(text, mid + 1, hi)

\* Buffer.from(text) and Buffer.from(text, 'utf8')
Utf8Bytes(text) == Utf8Range(text, 1, Len(text))

\* character of a byte, as a table
ChrTable ==
    [b \in 0..255 |->
        IF b >= 32 /\ b <= 95 THEN CharAt(AsciiLow, b - 31)
        ELSE IF b >= 97 /\ b <= 126 THEN CharAt(AsciiHigh, b - 96)
        ELSE Replacement]

Chr(b) == ChrTable[b]

\* buf.toString('utf8')
Utf8Text(buf) == [i \in 1..Len(buf) |-> Chr(buf[i])]

\* the hex digits, as a table
HexTable == [n \in 0..15 |-> CharAt(HexDigits, n + 1)]

\* buf.toString('hex')
HexText(buf) ==
    [i \in 1..(2 * Len(buf)) |->
        IF i % 2 = 1 THEN HexTable[buf[(i + 1) \div 2] \div 16]
                     ELSE HexTable[buf[i \div 2] % 16]]

HexValTable ==
    [c \in Chars(HexDigits) \cup Chars(HexUpper) |->
        IF c \in Chars(HexDigits) THEN IndexIn(c, HexDigits) - 1
                                  ELSE IndexIn(c, HexUpper) - 1]

\* value of a hex digit, -1 for any other character
HexVal(c) == IF c \in DOMAIN HexValTable THEN HexValTable[c] ELSE -1

Min(S) == CHOOSE m \in S : \A n \in S : m <= n

\* Buffer.from(text, 'hex'): whole pairs of digits, up to the first bad pair
HexBytes(text) ==
    Let({i \in 1..(Len(text) \div 2) : HexVal(text[2 * i - 1]) < 0 \/ HexVal(text[2 * i]) < 0},
        LAMBDA bad :
            [i \in 1..(IF bad = {} THEN Len(text) \div 2 ELSE Min(bad) - 1) |->
                16 * HexVal(text[2 * i - 1]) + HexVal(text[2 * i])])

\* the base64 alphabet, as tables both ways
B64Table == [n \in 0..63 |-> CharAt(B64Chars, n + 1)]
B64ValTable == [c \in Chars(B64Chars) |-> IndexIn(c, B64Chars) - 1]

\* the byte at i, 0 past the end
ByteAt(buf, i) == IF i <= Len(buf) THEN buf[i] ELSE 0

\* buf.toString('base64'): four characters for each group of up to three
\* bytes, '=' where the group has no byte left
Base64Text(buf) ==
    [k \in 1..(4 * ((Len(buf) + 2) \div 3)) |->
        LET i == 3 * ((k - 1) \div 4) + 1
            left == Len(buf) - i + 1
        IN CASE (k - 1) % 4 = 0 -> B64Table[buf[i] \div 4]
             [] (k - 1) % 4 = 1 -> B64Table[(buf[i] % 4) * 16 + ByteAt(buf, i + 1) \div 16]
             [] (k - 1) % 4 = 2 ->
                    IF left >= 2
                    THEN B64Table[(buf[i + 1] % 16) * 4 + ByteAt(buf, i + 2) \div 64]
                    ELSE "="
             [] OTHER -> IF left >= 3 THEN B64Table[buf[i + 2] % 64] ELSE "="]

\* the 6-bit values of the base64 characters of a text up to the first '=';
\* characters outside the alphabet are skipped
B64Vals(text) ==
    Let({i \in 1..Len(text) : text[i] = "="},
        LAMBDA stops :
            Let(SelectSeq(SubSeq(text, 1, IF stops = {} THEN Len(text) ELSE Min(stops) - 1),
                          LAMBDA c : c \in DOMAIN B64ValTable),
                LAMBDA kept : [i \in 1..Len(kept) |-> B64ValTable[kept[i]]]))

\* Buffer.from(text, 'base64')
Base64Bytes(text) ==
    Let(B64Vals(text),
        LAMBDA v :
            [k \in 1..((Len(v) \div 4) * 3 + (IF Len(v) % 4 >= 2 THEN (Len(v) % 4) - 1 ELSE 0)) |->
                LET q == 4 * ((k - 1) \div 3) IN
                CASE (k - 1) % 3 = 0 -> v[q + 1] * 4 + v[q + 2] \div 16
                  [] (k - 1) % 3 = 1 -> (v[q + 2] % 16) * 16 + v[q + 3] \div 4
                  [] OTHER -> (v[q + 3] % 4) * 64 + v[q + 4]])

\* buf.toString(encoding)
BufToString(buf, encoding) ==
    CASE encoding = "hex" -> HexText(buf)
      [] encoding = "base64" -> Base64Text(buf)
      [] OTHER -> Utf8Text(buf)

\* Buffer.from(text, encoding)
BufFrom(text, encoding) ==
    CASE encoding = "hex" -> HexBytes(text)
      [] encoding = "base64" -> Base64Bytes(text)
      [] OTHER -> Utf8Bytes(text)

(***************************************************************************)
(* The crypto module: getCipherInfo, pbkdf2Sync, createCipheriv and        *)
(* createDecipheriv.  The block cipher is a keyed byte-wise substitution   *)
(* run in CBC mode with PKCS#7 padding (the chaining and the key mixing    *)
(* add modulo 256), the key derivation a keyed digest of its arguments:    *)
(* both keep what the Obfuscator relies on, the block and key sizes, the   *)
(* padding check of final(), the dependence of the result on every         *)
(* argument, and that a wrong key turns a block into one that depends on   *)
(* the ciphertext, so that its padding may or may not pass the check.      *)
(***************************************************************************)

\* Crypto.getCipherInfo(alg): "aes-256-cbc" is the cipher of DEFAULT_CONFIG
CipherInfo(alg) ==
    CASE alg = "aes-256-cbc" -> [keyLength |-> 32, ivLength |-> 16, blockSize |-> 16]
      [] alg = "aes-128-cbc" -> [keyLength |-> 16, ivLength |-> 16, blockSize |-> 16]
      [] OTHER -> [keyLength |-> 0, ivLength |-> 0, blockSize |-> 0]

\* the code of a character (the replacement character counts as its first byte)
Ord(c) == IF c \in DOMAIN OrdTable THEN OrdTable[c] ELSE 239

RECURSIVE DigestRange(_, _, _)
DigestRange(text, lo, hi) ==
    IF lo > hi THEN 0
    ELSE IF lo = hi THEN ((Ord(CharAt(text, lo)) + 1) * (lo + 30)) % 65521
    ELSE LET mid == (lo + hi) \div 2
         IN (DigestRange(text, lo, mid) + DigestRange(text, mid + 1, hi)) % 65521

\* the password and the salt of the DEFAULT entry of Obfuscator.DEFAULT_CONFIG
DefaultPassword == "fiQ7YCt7BTQ47aDotBFxpzSfibBjiI5BX21MeMUNugPRC9RQSwjDyWd4abiq0SNwhZbVmASGC6OxrJuS"
DefaultSalt == "zDvGZz2epkEeSbxAeMFxobCfcjG2GAHIcZZ8WX3SfEYX4g2idD3VTQsrCQIC7QsyYE4B36tRKEm1hUib"

\* the digests of the two default texts, computed once
DigestMemo ==
    [text \in {DefaultPassword, DefaultSalt} |-> DigestRange(text, 1, Len(text))]

\* a digest of a text: a position-weighted sum of its characters
Digest(text) ==
    IF text \in DOMAIN DigestMemo THEN DigestMemo[text]
    ELSE DigestRange(text, 1, Len(text))

\* Crypto.pbkdf2Sync(password, salt, iterations, keylen, hash)
pbkdf2Sync(password, salt, iterations, keylen, hash) ==
    Let((7 * Digest(password) + 3 * Digest(salt) + Digest(hash) + iterations) % 65521,
        LAMBDA seed : [i \in 1..keylen |-> (seed * i + seed \div 256 + i) % 256])

\* PKCS#7: n bytes of value n, 1 <= n <= blockSize
Pad(data, blockSize) ==
    LET n == blockSize - (Len(data) % blockSize)
    IN data \o [i \in 1..n |-> n]

\* the byte substitution of the block cipher and its inverse
SBox == [v \in 0..255 |-> (v * (2 * v + 1)) % 256]
SBoxInverse == [y \in 0..255 |-> CHOOSE v \in 0..255 : SBox[v] = y]

\* the byte of the key mixed in before (at j) and after the substitution
KeyAt(key, j) == key[((j - 1) % Len(key)) + 1]

\* one block: every byte is mixed with the key, substituted, and mixed again
EncryptBlock(block, key) ==
    [j \in 1..Len(block) |->
        (SBox[(block[j] + KeyAt(key, j)) % 256] + KeyAt(key, j + Len(block))) % 256]

DecryptBlock(block, key) ==
    [j \in 1..Len(block) |->
        (SBoxInverse[(block[j] + 256 - KeyAt(key, j + Len(block))) % 256]
         + 256 - KeyAt(key, j)) % 256]

RECURSIVE CbcEncrypt(_, _, _)
CbcEncrypt(plain, prev, key) ==
    IF Len(plain) = 0 THEN <<>>
    ELSE Let(EncryptBlock([j \in 1..Len(prev) |-> (plain[j] + prev[j]) % 256], key),
             LAMBDA block :
                 block \o CbcEncrypt(SubSeq(plain, Len(prev) + 1, Len(plain)), block, key))

RECURSIVE CbcDecrypt(_, _, _)
CbcDecrypt(data, prev, key) ==
    IF Len(data) = 0 THEN <<>>
    ELSE Let(DecryptBlock(SubSeq(data, 1, Len(prev)), key),
             LAMBDA clear : [j \in 1..Len(prev) |-> (clear[j] + 256 - prev[j]) % 256])
         \o CbcDecrypt(SubSeq(data, Len(prev) + 1, Len(data)), SubSeq(data, 1, Len(prev)), key)

\* createCipheriv(alg, key, iv), update(data), final()
Encrypt(alg, key, iv, data) ==
    CbcEncrypt(Pad(data, CipherInfo(alg).blockSize), iv, key)

\* final() of a decipher: the data without its padding, or the error thrown
\* when the last byte n is no padding length or the last n bytes are not n
Unpad(padded, blockSize) ==
    LET n == padded[Len(padded)] IN
    IF n >= 1 /\ n <= blockSize
       /\ \A i \in (Len(padded) - n + 1)..Len(padded) : padded[i] = n
    THEN [err |-> "", data |-> SubSeq(padded, 1, Len(padded) - n)]
    ELSE [err |-> "bad decrypt", data |-> <<>>]

\* createDecipheriv(alg, key, iv), update(data), final(): the plaintext, or
\* the error thrown
Decrypt(alg, key, iv, data) ==
    LET info == CipherInfo(alg) IN
    IF Len(key) # info.keyLength \/ info.keyLength = 0
        THEN [err |-> "Invalid key length", data |-> <<>>]
    ELSE IF Len(iv) # info.ivLength
        THEN [err |-> "Invalid initialization vector", data |-> <<>>]
    ELSE IF Len(data) = 0 \/ Len(data) % info.blockSize # 0
        THEN [err |-> "wrong final block length", data |-> <<>>]
    ELSE Let(CbcDecrypt(data, iv, key), LAMBDA padded : Unpad(padded, info.blockSize))

(***************************************************************************)
(* Configuration objects.  An object is a function from its own keys to    *)
(* their values; algSettings comes with the order of its keys, which is    *)
(* the order Object.getOwnPropertyNames enumerates them in.  A key the     *)
(* caller sets to undefined is an own key whose value is undefined.        *)
(***************************************************************************)

\* the value of a key that is set to undefined (no string of the program)
undefined == "\fundefined"

DefaultAlgName == "DEFAULT"

DefaultSettings ==
    [name |-> "DEFAULT",
     notes |-> "This is a default obfuscation password - it should only be used for insensitive data as anybody with source access can decode this - See README.md for recommended production usage",
     password |-> DefaultPassword,
     salt |-> DefaultSalt,
     iterations |-> 100000,
     hash |-> "sha256",
     alg |-> "aes-256-cbc",
     stringEncoding |-> "utf8",
     binEncoding |-> "base64",
     doNotEncodeAfter |-> undefined]

\* Obfuscator.DEFAULT_CONFIG
DEFAULT_CONFIG ==
    [defaultAlg |-> DefaultAlgName,
     algSettings |-> [a \in {DefaultAlgName} |-> DefaultSettings],
     order |-> <<DefaultAlgName>>]

\* typeof copy !== 'undefined' (iterations is the one key that holds a number)
IsDefined(options, k) == k = "iterations" \/ options[k] # undefined

\* extend(true, target, options) on an object of plain values: every own key
\* of options whose value is defined is copied over the target's
extendSettings(target, options) ==
    LET copied == {k \in DOMAIN options : IsDefined(options, k)}
    IN [k \in DOMAIN target \cup copied |->
          IF k \in copied THEN options[k] ELSE target[k]]

EmptyObject == [k \in {} |-> ""]

Range(seq) == {seq[i] : i \in 1..Len(seq)}

\* the key order of the target after the keys of options were merged in
MergedOrder(targetOrder, optionsOrder) ==
    targetOrder \o SelectSeq(optionsOrder, LAMBDA k : k \notin Range(targetOrder))

\* extend(true, target, options) on the algSettings objects (deep)
extendAlgSettings(target, options) ==
    [a \in DOMAIN target \cup DOMAIN options |->
        IF a \notin DOMAIN options THEN target[a]
        ELSE extendSettings(IF a \in DOMAIN target THEN target[a] ELSE EmptyObject,
                            options[a])]

\* extend(true, {}, Obfuscator.DEFAULT_CONFIG, config); args is <<>> when
\* configure is called without a config, <<config>> otherwise
extendConfig(args) ==
    IF Len(args) = 0
    THEN [defaultAlg |-> DEFAULT_CONFIG.defaultAlg,
          algSettings |-> extendAlgSettings(EmptyObject, DEFAULT_CONFIG.algSettings),
          order |-> DEFAULT_CONFIG.order]
    ELSE [defaultAlg |-> IF "defaultAlg" \in DOMAIN args[1] /\ args[1].defaultAlg # undefined
                         THEN args[1].defaultAlg ELSE DEFAULT_CONFIG.defaultAlg,
          algSettings |-> extendAlgSettings(
                              extendAlgSettings(EmptyObject, DEFAULT_CONFIG.algSettings),
                              IF "algSettings" \in DOMAIN args[1] THEN args[1].algSettings
                              ELSE EmptyObject),
          order |-> IF "algSettings" \in DOMAIN args[1]
                    THEN MergedOrder(DEFAULT_CONFIG.order, args[1].order)
                    ELSE DEFAULT_CONFIG.order]

(***************************************************************************)
(* configure: the sanity check of the names and the resolution of the      *)
(* base references, pass by pass over the keys in their order.             *)
(***************************************************************************)

\* !o[k] of JavaScript for a string-valued key: absent, or the empty string
Falsy(o, k) == k \notin DOMAIN o \/ o[k] = ""

\* delete o[k]
DeleteKey(o, k) == [j \in DOMAIN o \ {k} |-> o[j]]

NameError(alg) == "Name incorrectly set for alg: " \o alg
UnknownAlgError(alg) == "Unknown alg: " \o alg
CircularError == "Circular dependency in alg config"
AlreadyConfiguredError == "Already configured"
MalformedError == "Malformed encoded string"
ExpiredError(alg) == "Alg has expired for encoding: " \o alg
PasswordError(name) == "Password is too short: " \o name
LengthTypeError == "TypeError: Cannot read properties of undefined (reading 'length')"

\* the sanity check of the first key only
checkNamesOfFirst(algSettings, order, i) ==
    IF i > Len(order) THEN ""
    ELSE LET alg == order[i]
             algCfg == algSettings[alg]
         IN IF "name" \notin DOMAIN algCfg \/ algCfg.name # alg THEN NameError(alg)
            ELSE ""

\* the sanity check loop: the error of the first key, in order, whose entry
\* is not named after it; "" when every name is right
RECURSIVE checkNames(_, _, _)
checkNames(algSettings, order, i) ==
    IF i > Len(order) THEN ""
    ELSE LET alg == order[i]
             algCfg == algSettings[alg]
         IN IF "name" \notin DOMAIN algCfg \/ algCfg.name # alg THEN NameError(alg)
            ELSE checkNames(algSettings, order, i + 1)

\* the body of the for loop with an unregistered base passed over
resolveStepSkipUnknown(st, alg) ==
    LET algCfg == st.algSettings[alg] IN
    IF Falsy(algCfg, "base") \/ algCfg.base \notin DOMAIN st.algSettings THEN st
    ELSE LET baseCfg == st.algSettings[algCfg.base] IN
         IF Falsy(baseCfg, "base")
         THEN [st EXCEPT !.numProcessed = @ + 1,
                         !.algSettings[alg] =
                             extendSettings(extendSettings(EmptyObject, baseCfg),
                                            DeleteKey(algCfg, "base"))]
         ELSE [st EXCEPT !.numWithBase = @ + 1]

\* the body of the for loop with the merge turned round: the fields of the
\* base over those of the entry
resolveStepBaseWins(st, alg) ==
    LET algCfg == st.algSettings[alg] IN
    IF Falsy(algCfg, "base") THEN st
    ELSE IF algCfg.base \notin DOMAIN st.algSettings
        THEN [st EXCEPT !.err = UnknownAlgError(algCfg.base)]
    ELSE LET baseCfg == st.algSettings[algCfg.base] IN
         IF Falsy(baseCfg, "base")
         THEN [st EXCEPT !.numProcessed = @ + 1,
                         !.algSettings[alg] =
                             extendSettings(
                                 extendSettings(EmptyObject, DeleteKey(algCfg, "base")),
                                 [k \in DOMAIN baseCfg \ {"name"} |-> baseCfg[k]])]
         ELSE [st EXCEPT !.numWithBase = @ + 1]

\* the body of the for loop that merges an entry with its base as the base
\* is when the entry is reached, resolved or not
resolveStepEager(st, alg) ==
    LET algCfg == st.algSettings[alg] IN
    IF Falsy(algCfg, "base") THEN st
    ELSE IF algCfg.base \notin DOMAIN st.algSettings
        THEN [st EXCEPT !.err = UnknownAlgError(algCfg.base)]
    ELSE LET baseCfg == st.algSettings[algCfg.base] IN
         [st EXCEPT !.numProcessed = @ + 1,
                    !.algSettings[alg] =
                        extendSettings(extendSettings(EmptyObject, DeleteKey(baseCfg, "base")),
                                       DeleteKey(algCfg, "base"))]

\* the body of the for loop of one pass, for the key alg; st holds the
\* registry being rewritten in place, the two counters and the error thrown
resolveStep(st, alg) ==
    LET algCfg == st.algSettings[alg] IN
    IF Falsy(algCfg, "base") THEN st
    ELSE IF algCfg.base \notin DOMAIN st.algSettings
        THEN [st EXCEPT !.err = UnknownAlgError(algCfg.base)]
    ELSE LET baseCfg == st.algSettings[algCfg.base] IN
         IF Falsy(baseCfg, "base")
         THEN [st EXCEPT !.numProcessed = @ + 1,
                         !.algSettings[alg] =
                             extendSettings(extendSettings(EmptyObject, baseCfg),
                                            DeleteKey(algCfg, "base"))]
         ELSE [st EXCEPT !.numWithBase = @ + 1]

\* the for loop of one pass, from the i-th key on
RECURSIVE resolvePass(_, _, _)
resolvePass(st, order, i) ==
    IF i > Len(order) \/ st.err # "" THEN st
    ELSE resolvePass(resolveStep(st, order[i]), order, i + 1)

\* the loop left, without an error, by a pass that processed nothing
RECURSIVE resolveLoopNoThrow(_, _, _)
resolveLoopNoThrow(algSettings, order, passes) ==
    Let(resolvePass([algSettings |-> algSettings, numProcessed |-> 0,
                     numWithBase |-> 0, err |-> ""], order, 1),
        LAMBDA st :
            IF st.err # ""
            THEN [err |-> st.err, algSettings |-> st.algSettings, passes |-> passes]
            ELSE IF st.numWithBase > 0 /\ st.numProcessed > 0
            THEN resolveLoopNoThrow(st.algSettings, order, passes + 1)
            ELSE [err |-> "", algSettings |-> st.algSettings, passes |-> passes])

\* the loop that gives up after eight passes, whatever the passes processed
RECURSIVE resolveLoopFixedLimit(_, _, _)
resolveLoopFixedLimit(algSettings, order, passes) ==
    Let(resolvePass([algSettings |-> algSettings, numProcessed |-> 0,
                     numWithBase |-> 0, err |-> ""], order, 1),
        LAMBDA st :
            IF st.err # ""
            THEN [err |-> st.err, algSettings |-> st.algSettings, passes |-> passes]
            ELSE IF st.numWithBase > 0 /\ passes >= 8
            THEN [err |-> CircularError, algSettings |-> st.algSettings, passes |-> passes]
            ELSE IF st.numWithBase > 0
            THEN resolveLoopFixedLimit(st.algSettings, order, passes + 1)
            ELSE [err |-> "", algSettings |-> st.algSettings, passes |-> passes])

\* the do ... while (numWithBase) loop; passes counts the passes made
RECURSIVE resolveLoop(_, _, _)
resolveLoop(algSettings, order, passes) ==
    Let(resolvePass([algSettings |-> algSettings, numProcessed |-> 0,
                     numWithBase |-> 0, err |-> ""], order, 1),
        LAMBDA st :
            IF st.err # ""
            THEN [err |-> st.err, algSettings |-> st.algSettings, passes |-> passes]
            ELSE IF st.numWithBase > 0 /\ st.numProcessed = 0
            THEN [err |-> CircularError, algSettings |-> st.algSettings, passes |-> passes]
            ELSE IF st.numWithBase > 0 THEN resolveLoop(st.algSettings, order, passes + 1)
            ELSE [err |-> "", algSettings |-> st.algSettings, passes |-> passes])

\* configure(config) up to its commit: the error thrown ("" for none), the
\* new configuration and the number of passes of the resolution
resolveConfig(args) ==
    Let(extendConfig(args),
        LAMBDA newConfig :
            Let(checkNames(newConfig.algSettings, newConfig.order, 1),
                LAMBDA nameErr :
                    IF nameErr # "" THEN [err |-> nameErr, config |-> newConfig, passes |-> 0]
                    ELSE Let(resolveLoop(newConfig.algSettings, newConfig.order, 1),
                             LAMBDA r :
                                 [err |-> r.err,
                                  config |-> [newConfig EXCEPT !.algSettings = r.algSettings],
                                  passes |-> r.passes])))

(***************************************************************************)
(* The later variant of the class: the constructor merges the overrides    *)
(* into this.config and its configure() fills this.algSettings.            *)
(***************************************************************************)

\* the body of the for loop of the later configure() without { base: '' }
laterStepKeepBase(st, config, alg) ==
    LET algCfg == config.algSettings[alg] IN
    IF alg \in DOMAIN st.algSettings THEN st
    ELSE IF ~Falsy(algCfg, "base") /\ algCfg.base \notin DOMAIN st.algSettings
        THEN IF algCfg.base \notin DOMAIN config.algSettings
             THEN [st EXCEPT !.err = UnknownAlgError(algCfg.base)]
             ELSE [st EXCEPT !.numWithBase = @ + 1]
    ELSE IF "name" \notin DOMAIN algCfg \/ algCfg.name # alg
        THEN [st EXCEPT !.numProcessed = @ + 1, !.err = NameError(alg)]
    ELSE LET baseCfg == IF ~Falsy(algCfg, "base") THEN st.algSettings[algCfg.base]
                        ELSE EmptyObject
             resolved == extendSettings(
                            extendSettings(extendSettings(EmptyObject, baseCfg),
                                           [password |-> ""]),
                            algCfg)
         IN [st EXCEPT !.numProcessed = @ + 1,
                       !.algSettings = [a \in DOMAIN @ \cup {alg} |->
                                           IF a = alg THEN resolved ELSE @[a]]]

\* the body of the for loop of the later configure() without the
\* { password: '' } between the base and the entry
laterStepInheritPassword(st, config, alg) ==
    LET algCfg == config.algSettings[alg] IN
    IF alg \in DOMAIN st.algSettings THEN st
    ELSE IF ~Falsy(algCfg, "base") /\ algCfg.base \notin DOMAIN st.algSettings
        THEN IF algCfg.base \notin DOMAIN config.algSettings
             THEN [st EXCEPT !.err = UnknownAlgError(algCfg.base)]
             ELSE [st EXCEPT !.numWithBase = @ + 1]
    ELSE IF "name" \notin DOMAIN algCfg \/ algCfg.name # alg
        THEN [st EXCEPT !.numProcessed = @ + 1, !.err = NameError(alg)]
    ELSE LET baseCfg == IF ~Falsy(algCfg, "base") THEN st.algSettings[algCfg.base]
                        ELSE EmptyObject
             resolved == extendSettings(
                            extendSettings(extendSettings(EmptyObject, baseCfg), algCfg),
                            [base |-> ""])
         IN [st EXCEPT !.numProcessed = @ + 1,
                       !.algSettings = [a \in DOMAIN @ \cup {alg} |->
                                           IF a = alg THEN resolved ELSE @[a]]]

\* the body of the for loop of the later configure(), for the key alg
laterStep(st, config, alg) ==
    LET algCfg == config.algSettings[alg] IN
    IF alg \in DOMAIN st.algSettings THEN st
    ELSE IF ~Falsy(algCfg, "base") /\ algCfg.base \notin DOMAIN st.algSettings
        THEN IF algCfg.base \notin DOMAIN config.algSettings
             THEN [st EXCEPT !.err = UnknownAlgError(algCfg.base)]
             ELSE [st EXCEPT !.numWithBase = @ + 1]
    ELSE IF "name" \notin DOMAIN algCfg \/ algCfg.name # alg
        THEN [st EXCEPT !.numProcessed = @ + 1, !.err = NameError(alg)]
    ELSE LET baseCfg == IF ~Falsy(algCfg, "base") THEN st.algSettings[algCfg.base]
                        ELSE EmptyObject
             resolved == extendSettings(
                            extendSettings(
                                extendSettings(extendSettings(EmptyObject, baseCfg),
                                               [password |-> ""]),
                                algCfg),
                            [base |-> ""])
         IN [st EXCEPT !.numProcessed = @ + 1,
                       !.algSettings = [a \in DOMAIN @ \cup {alg} |->
                                           IF a = alg THEN resolved ELSE @[a]]]

RECURSIVE laterPass(_, _, _)
laterPass(st, config, i) ==
    IF i > Len(config.order) \/ st.err # "" THEN st
    ELSE laterPass(laterStep(st, config, config.order[i]), config, i + 1)

RECURSIVE laterLoop(_, _, _)
laterLoop(algSettings, config, passes) ==
    Let(laterPass([algSettings |-> algSettings, numProcessed |-> 0,
                   numWithBase |-> 0, err |-> ""], config, 1),
        LAMBDA st :
            IF st.err # ""
            THEN [err |-> st.err, algSettings |-> st.algSettings, passes |-> passes]
            ELSE IF st.numWithBase > 0 /\ st.numProcessed = 0
            THEN [err |-> CircularError, algSettings |-> st.algSettings, passes |-> passes]
            ELSE IF st.numWithBase > 0 THEN laterLoop(st.algSettings, config, passes + 1)
            ELSE [err |-> "", algSettings |-> st.algSettings, passes |-> passes])

\* new Obfuscator(...config) of the later variant: the merged this.config,
\* then configure()
laterConstruct(args) ==
    Let(extendConfig(args),
        LAMBDA config :
            Let(laterLoop(EmptyObject, config, 1),
                LAMBDA r :
                    [err |-> r.err, config |-> config, algSettings |-> r.algSettings,
                     passes |-> r.passes]))

(***************************************************************************)
(* The Obfuscator instance: an object self with the fields _cache, _config *)
(* and _configLocked.  Each method gives the object after the call, the    *)
(* error thrown ("" for none) and the value returned.                      *)
(***************************************************************************)

\* the field initialisers: _cache = {}, _configLocked = false (_config is
\* assigned by the constructor before anything reads it)
NewObject == [_cache |-> EmptyObject, _config |-> DEFAULT_CONFIG, _configLocked |-> FALSE]

\* configure(config) without its guard: a configured instance is configured again
configureUnguarded(self, args) ==
    Let(resolveConfig(args),
        LAMBDA r :
            IF r.err # "" THEN [self |-> self, err |-> r.err, passes |-> r.passes]
            ELSE [self |-> [_cache |-> EmptyObject, _config |-> r.config,
                            _configLocked |-> TRUE],
                  err |-> "", passes |-> r.passes])

\* configure(config) that locks the instance and drops the keys before it
\* checks the config
configureCommitFirst(self, args) ==
    IF self._configLocked THEN [self |-> self, err |-> AlreadyConfiguredError, passes |-> 0]
    ELSE Let(resolveConfig(args),
             LAMBDA r :
                 IF r.err # ""
                 THEN [self |-> [self EXCEPT !._cache = EmptyObject, !._configLocked = TRUE],
                       err |-> r.err, passes |-> r.passes]
                 ELSE [self |-> [_cache |-> EmptyObject, _config |-> r.config,
                                 _configLocked |-> TRUE],
                       err |-> "", passes |-> r.passes])

\* configure(config) that keeps the keys of the registry it replaces
configureKeepCache(self, args) ==
    IF self._configLocked THEN [self |-> self, err |-> AlreadyConfiguredError, passes |-> 0]
    ELSE Let(resolveConfig(args),
             LAMBDA r :
                 IF r.err # "" THEN [self |-> self, err |-> r.err, passes |-> r.passes]
                 ELSE [self |-> [_cache |-> self._cache, _config |-> r.config,
                                 _configLocked |-> TRUE],
                       err |-> "", passes |-> r.passes])

\* configure(config)
configure(self, args) ==
    IF self._configLocked THEN [self |-> self, err |-> AlreadyConfiguredError, passes |-> 0]
    ELSE Let(resolveConfig(args),
             LAMBDA r :
                 IF r.err # "" THEN [self |-> self, err |-> r.err, passes |-> r.passes]
                 ELSE [self |-> [_cache |-> EmptyObject, _config |-> r.config,
                                 _configLocked |-> TRUE],
                       err |-> "", passes |-> r.passes])

\* constructor(config): this._configLocked = !!config
constructor(args) ==
    Let(configure(NewObject, args),
        LAMBDA r :
            IF r.err # "" THEN r
            ELSE [r EXCEPT !.self._configLocked = (Len(args) > 0)])

\* the days from 1970-01-01 to the civil date y-m-d
DaysFromCivil(y, m, d) ==
    LET yy == IF m <= 2 THEN y - 1 ELSE y
        era == yy \div 400
        yoe == yy - era * 400
        mp == IF m > 2 THEN m - 3 ELSE m + 9
        doy == (153 * mp + 2) \div 5 + d - 1
        doe == yoe * 365 + yoe \div 4 - yoe \div 100 + doy
    IN era * 146097 + doe - 719468

DecDigits == "0123456789"

IsDigits(s) == \A i \in 1..Len(s) : CharAt(s, i) \in Chars(DecDigits)

RECURSIVE DecValue(_)
DecValue(s) ==
    IF Len(s) = 0 THEN 0
    ELSE 10 * DecValue(SubSeq(s, 1, Len(s) - 1)) + IndexIn(CharAt(s, Len(s)), DecDigits) - 1

\* Date.parse(text) of a date "YYYY-MM-DD", read as the start of that day
\* in UTC; nan for any other text
DateParse(text) ==
    IF Len(text) = 10 /\ CharAt(text, 5) = "-" /\ CharAt(text, 8) = "-"
       /\ IsDigits(SubSeq(text, 1, 4)) /\ IsDigits(SubSeq(text, 6, 7))
       /\ IsDigits(SubSeq(text, 9, 10))
       /\ DecValue(SubSeq(text, 6, 7)) \in 1..12 /\ DecValue(SubSeq(text, 9, 10)) \in 1..31
    THEN [nan |-> FALSE,
          time |-> 86400 * DaysFromCivil(DecValue(SubSeq(text, 1, 4)),
                                         DecValue(SubSeq(text, 6, 7)),
                                         DecValue(SubSeq(text, 9, 10)))]
    ELSE [nan |-> TRUE, time |-> 0]

\* _isAfterCheckDate with dt < now for dt <= now
_isAfterCheckDateStrict(settings, clock) ==
    IF "doNotEncodeAfter" \notin DOMAIN settings THEN FALSE
    ELSE Let(DateParse(settings.doNotEncodeAfter), LAMBDA dt : ~dt.nan /\ dt.time < clock)

\* Obfuscator._isAfterCheckDate(limit, now) for the limit of settings: the
\* key doNotEncodeAfter absent is limit == null
_isAfterCheckDate(settings, clock) ==
    IF "doNotEncodeAfter" \notin DOMAIN settings THEN FALSE
    ELSE Let(DateParse(settings.doNotEncodeAfter), LAMBDA dt : ~dt.nan /\ dt.time <= clock)

InvalidArgError == "TypeError [ERR_INVALID_ARG_TYPE]"

\* generateKey(settings) with a key derived from the salt alone
generateKeyFromSalt(settings) ==
    IF "password" \notin DOMAIN settings THEN [err |-> LengthTypeError, key |-> <<>>]
    ELSE IF Len(settings.password) < 8 THEN [err |-> PasswordError(settings.name), key |-> <<>>]
    ELSE IF {"salt", "iterations", "hash", "alg"} \subseteq DOMAIN settings
         /\ CipherInfo(settings.alg).keyLength > 0
    THEN [err |-> "",
          key |-> pbkdf2Sync(settings.salt, settings.salt, settings.iterations,
                             CipherInfo(settings.alg).keyLength, settings.hash)]
    ELSE [err |-> InvalidArgError, key |-> <<>>]

\* generateKey(settings): the key, or the error thrown
generateKey(settings) ==
    IF "password" \notin DOMAIN settings THEN [err |-> LengthTypeError, key |-> <<>>]
    ELSE IF Len(settings.password) < 8 THEN [err |-> PasswordError(settings.name), key |-> <<>>]
    ELSE IF {"salt", "iterations", "hash", "alg"} \subseteq DOMAIN settings
         /\ CipherInfo(settings.alg).keyLength > 0
    THEN [err |-> "",
          key |-> pbkdf2Sync(settings.password, settings.salt, settings.iterations,
                             CipherInfo(settings.alg).keyLength, settings.hash)]
    ELSE [err |-> InvalidArgError, key |-> <<>>]

\* getKey(settings) that generates the key on every call
getKeyUncached(self, settings) ==
    Let(generateKey(settings),
        LAMBDA g :
            IF g.err # ""
            THEN [self |-> self, err |-> g.err, key |-> <<>>, derived |-> TRUE]
            ELSE [self |-> [self EXCEPT !._cache =
                               [n \in DOMAIN @ \cup {settings.name} |->
                                   IF n = settings.name THEN g.key ELSE @[n]]],
                  err |-> "", key |-> g.key, derived |-> TRUE])

\* getKey(settings) that leaves an empty key in the cache when generateKey
\* throws
getKeyCachingFailure(self, settings) ==
    IF settings.name \in DOMAIN self._cache
    THEN [self |-> self, err |-> "", key |-> self._cache[settings.name],
          derived |-> FALSE]
    ELSE Let(generateKey(settings),
             LAMBDA g :
                 [self |-> [self EXCEPT !._cache =
                               [n \in DOMAIN @ \cup {settings.name} |->
                                   IF n = settings.name THEN g.key ELSE @[n]]],
                  err |-> g.err, key |-> g.key, derived |-> TRUE])

\* getKey(settings) that starts the cache anew with the key it generates
getKeyAlone(self, settings) ==
    IF settings.name \in DOMAIN self._cache
    THEN [self |-> self, err |-> "", key |-> self._cache[settings.name],
          derived |-> FALSE]
    ELSE Let(generateKey(settings),
             LAMBDA g :
                 IF g.err # ""
                 THEN [self |-> self, err |-> g.err, key |-> <<>>, derived |-> TRUE]
                 ELSE [self |-> [self EXCEPT !._cache = [n \in {settings.name} |-> g.key]],
                       err |-> "", key |-> g.key, derived |-> TRUE])

\* getKey(settings): this._cache[settings.name] ??= this.generateKey(settings)
getKey(self, settings) ==
    IF settings.name \in DOMAIN self._cache
    THEN [self |-> self, err |-> "", key |-> self._cache[settings.name],
          derived |-> FALSE]
    ELSE Let(generateKey(settings),
             LAMBDA g :
                 IF g.err # ""
                 THEN [self |-> self, err |-> g.err, key |-> <<>>, derived |-> TRUE]
                 ELSE [self |-> [self EXCEPT !._cache =
                                    [n \in DOMAIN @ \cup {settings.name} |->
                                        IF n = settings.name THEN g.key ELSE @[n]]],
                       err |-> "", key |-> g.key, derived |-> TRUE])

\* the encoding a key of settings names; an absent one is toString()'s utf8
EncodingOf(settings, k) == IF k \in DOMAIN settings THEN settings[k] ELSE "utf8"

\* _encode(alg, val) that falls back on the default algorithm for an unknown alg
_encodeFallback(self, alg, val, iv, clock) ==
    Let(IF alg \in DOMAIN self._config.algSettings THEN alg ELSE DefaultAlgName,
        LAMBDA used :
            Let(getKey(self, self._config.algSettings[used]),
                LAMBDA k :
                    IF k.err # ""
                 THEN [self |-> k.self, err |-> k.err, ret |-> <<>>,
                       key |-> <<>>, derived |-> k.derived]
                    ELSE [self |-> k.self, err |-> "",
                          ret |-> Text(used) \o <<":">>
                                  \o BufToString(iv, EncodingOf(self._config.algSettings[used],
                                                                "binEncoding"))
                                  \o <<":">>
                                  \o BufToString(
                                         Encrypt(self._config.algSettings[used].alg, k.key, iv, val),
                                         EncodingOf(self._config.algSettings[used], "binEncoding")),
                          key |-> k.key, derived |-> k.derived]))

\* _encode(alg, val) without the check of doNotEncodeAfter
_encodeUnchecked(self, alg, val, iv, clock) ==
    IF alg \notin DOMAIN self._config.algSettings
    THEN [self |-> self, err |-> UnknownAlgError(alg), ret |-> <<>>,
          key |-> <<>>, derived |-> FALSE]
    ELSE Let(getKey(self, self._config.algSettings[alg]),
             LAMBDA k :
                 IF k.err # ""
                 THEN [self |-> k.self, err |-> k.err, ret |-> <<>>,
                       key |-> <<>>, derived |-> k.derived]
                 ELSE [self |-> k.self, err |-> "", key |-> k.key, derived |-> k.derived,
                       ret |-> Text(alg) \o <<":">>
                               \o BufToString(iv, EncodingOf(self._config.algSettings[alg],
                                                             "binEncoding"))
                               \o <<":">>
                               \o BufToString(
                                      Encrypt(self._config.algSettings[alg].alg, k.key, iv, val),
                                      EncodingOf(self._config.algSettings[alg], "binEncoding"))])

\* _encode(alg, val) that gets the key before it checks doNotEncodeAfter
_encodeKeyFirst(self, alg, val, iv, clock) ==
    IF alg \notin DOMAIN self._config.algSettings
    THEN [self |-> self, err |-> UnknownAlgError(alg), ret |-> <<>>,
          key |-> <<>>, derived |-> FALSE]
    ELSE Let(getKey(self, self._config.algSettings[alg]),
             LAMBDA k :
                 IF k.err # ""
                 THEN [self |-> k.self, err |-> k.err, ret |-> <<>>,
                       key |-> <<>>, derived |-> k.derived]
                 ELSE IF _isAfterCheckDate(self._config.algSettings[alg], clock)
                 THEN [self |-> k.self, err |-> ExpiredError(alg), ret |-> <<>>,
                       key |-> k.key, derived |-> k.derived]
                 ELSE [self |-> k.self, err |-> "", key |-> k.key, derived |-> k.derived,
                       ret |-> Text(alg) \o <<":">>
                               \o BufToString(iv, EncodingOf(self._config.algSettings[alg],
                                                             "binEncoding"))
                               \o <<":">>
                               \o BufToString(
                                      Encrypt(self._config.algSettings[alg].alg, k.key, iv, val),
                                      EncodingOf(self._config.algSettings[alg], "binEncoding"))])

\* _encode(alg, val) with the bytes of val and the iv Crypto.randomBytes gives
_encode(self, alg, val, iv, clock) ==
    IF alg \notin DOMAIN self._config.algSettings
    THEN [self |-> self, err |-> UnknownAlgError(alg), ret |-> <<>>,
          key |-> <<>>, derived |-> FALSE]
    ELSE LET settings == self._config.algSettings[alg] IN
    IF _isAfterCheckDate(settings, clock)
    THEN [self |-> self, err |-> ExpiredError(alg), ret |-> <<>>,
          key |-> <<>>, derived |-> FALSE]
    ELSE Let(getKey(self, settings),
             LAMBDA k :
                 IF k.err # ""
                 THEN [self |-> k.self, err |-> k.err, ret |-> <<>>,
                       key |-> <<>>, derived |-> k.derived]
                 ELSE [self |-> k.self, err |-> "", key |-> k.key, derived |-> k.derived,
                       ret |-> Text(alg) \o <<":">>
                               \o BufToString(iv, EncodingOf(settings, "binEncoding"))
                               \o <<":">>
                               \o BufToString(Encrypt(settings.alg, k.key, iv, val),
                                              EncodingOf(settings, "binEncoding"))])

\* the alg parameter with "DEFAULT" in place of this._config.defaultAlg
AlgParamFixed(self, algArgs) == IF Len(algArgs) = 0 THEN DefaultAlgName ELSE algArgs[1]

\* the alg parameter: this._config.defaultAlg when the argument is omitted
AlgParam(self, algArgs) == IF Len(algArgs) = 0 THEN self._config.defaultAlg ELSE algArgs[1]

\* encodeBuffer(val, alg)
encodeBuffer(self, val, algArgs, iv, clock) ==
    _encode(self, AlgParam(self, algArgs), val, iv, clock)

\* encodeString(val, alg): Buffer.from(val).toString(stringEncoding) is the
\* string handed to _encode, where cipher.update reads it as utf8
encodeString(self, val, algArgs, iv, clock) ==
    LET alg == AlgParam(self, algArgs)
        stringEncoding == IF alg \in DOMAIN self._config.algSettings
                          THEN EncodingOf(self._config.algSettings[alg], "stringEncoding")
                          ELSE "utf8"
    IN _encode(self, alg, Utf8Bytes(BufToString(Utf8Bytes(val), stringEncoding)), iv, clock)

\* val.split(":") from position start on
RECURSIVE SplitFrom(_, _)
SplitFrom(val, start) ==
    Let({i \in start..Len(val) : val[i] = ":"},
        LAMBDA colons :
            IF colons = {} THEN <<SubSeq(val, start, Len(val))>>
            ELSE <<SubSeq(val, start, Min(colons) - 1)>> \o SplitFrom(val, Min(colons) + 1))

Split(val) == SplitFrom(val, 1)

\* the string of the characters of a text
RECURSIVE StringOf(_)
StringOf(text) ==
    IF Len(text) = 0 THEN ""
    ELSE StringOf(SubSeq(text, 1, Len(text) - 1)) \o text[Len(text)]

\* the keys of algSettings whose characters are those of a text (one or none)
KeysOf(self, text) == {a \in DOMAIN self._config.algSettings : Text(a) = text}

\* getSettings(alg) for the characters of a registered name
getSettings(self, text) == self._config.algSettings[CHOOSE a \in KeysOf(self, text) : TRUE]

\* _decode from getKey on: the key, the iv, the decipher
_decodeParts(self, settings, parts) ==
    Let(getKey(self, settings),
        LAMBDA k :
            IF k.err # ""
            THEN [self |-> k.self, err |-> k.err, settings |-> settings, data |-> <<>>,
                  key |-> <<>>, derived |-> k.derived]
            ELSE Let(Decrypt(settings.alg, k.key,
                             BufFrom(parts[2], EncodingOf(settings, "binEncoding")),
                             BufFrom(parts[3], EncodingOf(settings, "binEncoding"))),
                     LAMBDA d :
                         [self |-> k.self, err |-> d.err, settings |-> settings,
                          data |-> d.data, key |-> k.key, derived |-> k.derived]))

\* _decode(val) with the algorithm looked up before the parts are counted
_decodeLookupFirst(self, val) ==
    Let(Split(val),
        LAMBDA parts :
            IF KeysOf(self, parts[1]) = {}
            THEN [self |-> self, err |-> UnknownAlgError(StringOf(parts[1])),
                  settings |-> EmptyObject,
                  data |-> <<>>, key |-> <<>>, derived |-> FALSE]
            ELSE IF Len(parts) # 3
            THEN [self |-> self, err |-> MalformedError, settings |-> EmptyObject,
                  data |-> <<>>, key |-> <<>>, derived |-> FALSE]
            ELSE _decodeParts(self, getSettings(self, parts[1]), parts))

\* _decode(val): the settings and the data, or the error thrown
_decode(self, val) ==
    Let(Split(val),
        LAMBDA parts :
            IF Len(parts) # 3
            THEN [self |-> self, err |-> MalformedError, settings |-> EmptyObject,
                  data |-> <<>>, key |-> <<>>, derived |-> FALSE]
            ELSE IF KeysOf(self, parts[1]) = {}
            THEN [self |-> self, err |-> UnknownAlgError(StringOf(parts[1])),
                  settings |-> EmptyObject,
                  data |-> <<>>, key |-> <<>>, derived |-> FALSE]
            ELSE _decodeParts(self, getSettings(self, parts[1]), parts))

\* decodeString(val)
decodeString(self, val) ==
    Let(_decode(self, val),
        LAMBDA rv :
            [self |-> rv.self, err |-> rv.err, key |-> rv.key, derived |-> rv.derived,
             ret |-> IF rv.err # "" THEN <<>>
                     ELSE BufToString(rv.data, EncodingOf(rv.settings, "stringEncoding"))])

\* decodeBuffer(val)
decodeBuffer(self, val) ==
    Let(_decode(self, val),
        LAMBDA rv : [self |-> rv.self, err |-> rv.err, ret |-> rv.data,
                     key |-> rv.key, derived |-> rv.derived])

(***************************************************************************)
(* Inputs                                                                  *)
(***************************************************************************)

\* marks a key the caller leaves out of an entry
Absent == "\fabsent"

\* the object with the keys of r that are not marked Absent
Strip(r) == [k \in {j \in DOMAIN r : r[j] # Absent} |-> r[k]]

Entry(name, base, password, stringEncoding, binEncoding, doNotEncodeAfter) ==
    Strip([name |-> name, base |-> base, password |-> password,
           stringEncoding |-> stringEncoding, binEncoding |-> binEncoding,
           doNotEncodeAfter |-> doNotEncodeAfter])

\* a config { algSettings: { ... } } with the entries ents under the keys of order
Config(order, ents) ==
    [algSettings |-> [a \in Range(order) |-> ents[a]], order |-> order]

\* the passwords an entry is given: none, undefined, "", "123" and one long enough
Passwords == {Absent, undefined, "", "123", "UnitTests"}

PastDate == "1970-12-31"

\* the keys of an entry that change how it encodes
Overrides == {"password", "stringEncoding", "binEncoding", "doNotEncodeAfter"}

\* entries for the key foo: based on DEFAULT with at most one override, and
\* one with neither a base nor a password
FooEntries ==
    {e \in {Entry("foo", "DEFAULT", p, se, be, d) :
                p \in Passwords, se \in {Absent, "hex"},
                be \in {Absent, "hex"}, d \in {Absent, PastDate}} :
        Cardinality(DOMAIN e \cap Overrides) <= 1}
    \cup {Entry("foo", Absent, Absent, Absent, Absent, Absent)}

\* { algSettings: { foo: { name: "foo", base: "DEFAULT" },
\*                  bar: { name: "bar", base: "foo", password: "UnitTests" } } }
ChainConfig ==
    Config(<<"foo", "bar">>,
           [a \in {"foo", "bar"} |->
               IF a = "foo" THEN Entry("foo", "DEFAULT", Absent, Absent, Absent, Absent)
               ELSE Entry("bar", "foo", "UnitTests", Absent, Absent, Absent)])

\* { algSettings: { foo: { name: "foo", base: "DEFAULT", stringEncoding: "hex" },
\*                  bar: { name: "bar", base: "foo" } } }
HexChainConfig ==
    Config(<<"foo", "bar">>,
           [a \in {"foo", "bar"} |->
               IF a = "foo" THEN Entry("foo", "DEFAULT", Absent, "hex", Absent, Absent)
               ELSE Entry("bar", "foo", Absent, Absent, Absent, Absent)])

\* configs configure rejects: a wrong name, an unknown base, a cycle
BadConfigs ==
    {Config(<<"foo">>, [a \in {"foo"} |-> Entry("bar", Absent, Absent, Absent, Absent, Absent)]),
     Config(<<"foo">>, [a \in {"foo"} |-> Entry("foo", "bar", Absent, Absent, Absent, Absent)]),
     Config(<<"foo", "bar">>,
            [a \in {"foo", "bar"} |->
                IF a = "foo" THEN Entry("foo", "bar", Absent, Absent, Absent, Absent)
                ELSE Entry("bar", "foo", Absent, Absent, Absent, Absent)])}

\* { algSettings: { DEFAULT: { password: "UnitTests" } } }
RekeyConfig ==
    Config(<<"DEFAULT">>,
           [a \in {"DEFAULT"} |-> Entry(Absent, Absent, "UnitTests", Absent, Absent, Absent)])

\* { defaultAlg: "foo", algSettings: { foo: { name: "foo", base: "DEFAULT",
\* password: "UnitTests" } } }
DefaultFooConfig ==
    [defaultAlg |-> "foo",
     algSettings |-> [a \in {"foo"} |->
                         Entry("foo", "DEFAULT", "UnitTests", Absent, Absent, Absent)],
     order |-> <<"foo">>]

\* { algSettings: { foo: { name: "foo", base: "DEFAULT", password: "123",
\* doNotEncodeAfter: "1970-12-31" } } }
ExpiredShortConfig ==
    Config(<<"foo">>,
           [a \in {"foo"} |-> Entry("foo", "DEFAULT", "123", Absent, Absent, PastDate)])

\* { algSettings: { "a:b": { name: "a:b", base: "DEFAULT" } } }
ColonNameConfig ==
    Config(<<"a:b">>,
           [a \in {"a:b"} |-> Entry("a:b", "DEFAULT", Absent, Absent, Absent, Absent)])

\* {} and { defaultAlg: "foo" }
PlainConfigs ==
    {[order |-> <<>>], [defaultAlg |-> "foo", order |-> <<>>]}

\* the configs handed to the constructor
Configs ==
    {Config(<<"foo">>, [a \in {"foo"} |-> e]) : e \in FooEntries}
    \cup {ChainConfig, HexChainConfig, DefaultFooConfig, ExpiredShortConfig, ColonNameConfig}
    \cup BadConfigs \cup PlainConfigs

\* the argument lists of the constructor
ConfigArgs == {<<>>} \cup {<<c>> : c \in Configs}

\* the argument lists of configure
ReconfigArgs ==
    {<<>>} \cup {<<c>> : c \in {ChainConfig, RekeyConfig} \cup BadConfigs \cup PlainConfigs}

LongString == "1234567890123456789012345678901234567890123456789012345678901234567890123456789012345678901234567890"

MaxLen == 0

\* the lengths of the values encoded: 0..MaxLen and one whole cipher block
Lengths == 0..MaxLen \cup {CipherInfo(DefaultSettings.alg).blockSize}

Strings == {Text(SubSeq(LongString, 1, n)) : n \in Lengths}

Buffers == {[i \in 1..n |-> (250 + 11 * i) % 256] : n \in Lengths}

\* the values Crypto.randomBytes(16) gives: sixteen zero bytes, and a value
\* with which the last block of a token made under the password "UnitTests"
\* still ends in valid padding when it is decrypted under the default one
IVs == {[i \in 1..16 |-> 0],
        <<1, 2, 3, 5, 8, 13, 21, 34, 55, 89, 144, 233, 41, 40, 63, 62>>}

\* strings that are no token of three parts
MalformedTokens ==
    {Text(""), Text("foo"), Text("foo:bar"), Text("nope:1:2:3"), Text("foo:1:2:3:4:5")}

\* a string of three parts under a name that is never registered
UnknownTokens == {Text("nope:xxx:xxx")}

\* enc.replace(/^from:/, to + ":")
SwapPrefix(token, from, to) ==
    IF Len(token) > Len(from) /\ SubSeq(token, 1, Len(from) + 1) = Text(from) \o <<":">>
    THEN Text(to) \o SubSeq(token, Len(from) + 1, Len(token))
    ELSE token

(***************************************************************************)
(* The state machine: one instance, the clock, and the last call           *)
(***************************************************************************)

VARIABLES
    _cache,         \* this._cache
    _config,        \* this._config
    _configLocked,  \* this._configLocked
    now,            \* the clock, in seconds
    created,        \* the arguments the instance was constructed with
    supplied,       \* the argument lists that completed a configuration of it
    last,           \* the last call: its name, arguments, error and result
    pending,        \* the arguments a caller is about to configure with
    later,          \* the instance of the later variant built from them
    heap            \* the objects configure is handed: Obfuscator.DEFAULT_CONFIG,
                    \* the caller's config, and those configure makes

vars ==
    <<_cache, _config, _configLocked, now, created, supplied, last, pending, later, heap>>

Self == [_cache |-> _cache, _config |-> _config, _configLocked |-> _configLocked]

SetSelf(self) ==
    /\ _cache' = self._cache
    /\ _config' = self._config
    /\ _configLocked' = self._configLocked

\* a decode of a string that no encode gave; inst tells whether the call
\* recorded was made on this instance or on an earlier one
NoSource == [op |-> "none", val |-> <<>>, name |-> "", to |-> "", inst |-> "this"]

\* the record of a call: arg is the config list, the value or the token; alg
\* the alg argument list and name the algorithm it stands for; from tells a
\* decode which encode gave its token and under which name it is presented
Call(op, arg, alg, name, iv, err, ret, from) ==
    [op |-> op, arg |-> arg, alg |-> alg, name |-> name, iv |-> iv, err |-> err,
     ret |-> ret, from |-> from, key |-> <<>>, derived |-> FALSE]

\* the call with the key getKey returned for it, and whether generateKey ran
WithKey(call, r) == [call EXCEPT !.key = r.key, !.derived = r.derived]

ClockStart == DateParse("2026-11-05").time

\* no instance of the later variant was built
NotBuilt ==
    [built |-> FALSE, err |-> "", config |-> EmptyObject, algSettings |-> EmptyObject,
     passes |-> 0]

\* what a constructor given args completes: nothing without a config
Given(args) == IF Len(args) = 0 THEN <<>> ELSE <<args>>

\* new Obfuscator() or new Obfuscator(config), when it does not throw
Init ==
    \E args \in ConfigArgs :
    \E r \in {constructor(args)} :
        /\ r.err = ""
        /\ _cache = r.self._cache
        /\ _config = r.self._config
        /\ _configLocked = r.self._configLocked
        /\ now = ClockStart
        /\ created = args
        /\ supplied = Given(args)
        /\ last = Call("new", args, <<>>, "", <<>>, "", <<>>, NoSource)
        /\ pending = <<>>
        /\ later = NotBuilt
        /\ heap = <<>>

\* obfuscator.configure(config) or obfuscator.configure()
Configure(args) ==
    \E r \in {configure(Self, args)} :
    /\ SetSelf(r.self)
    /\ supplied' = IF r.err = "" THEN Append(supplied, args) ELSE supplied
    /\ last' = Call("configure", args, <<>>, "", <<>>, r.err,
                    IF r.err = "" THEN r.self._config ELSE <<>>, NoSource)
    /\ UNCHANGED <<now, created, pending, later, heap>>

\* obfuscator.encodeString(val) or obfuscator.encodeString(val, alg); the iv
\* is drawn once the checks of _encode have passed
EncodeString(val, algArgs, iv) ==
    \E r \in {encodeString(Self, val, algArgs, iv, now)} :
    /\ SetSelf(r.self)
    /\ last' = WithKey(Call("encodeString", val, algArgs, AlgParam(Self, algArgs),
                            IF r.err = "" THEN iv ELSE <<>>, r.err, r.ret, NoSource), r)
    /\ UNCHANGED <<now, created, supplied, pending, later, heap>>

\* obfuscator.encodeBuffer(val) or obfuscator.encodeBuffer(val, alg)
EncodeBuffer(val, algArgs, iv) ==
    \E r \in {encodeBuffer(Self, val, algArgs, iv, now)} :
    /\ SetSelf(r.self)
    /\ last' = WithKey(Call("encodeBuffer", val, algArgs, AlgParam(Self, algArgs),
                            IF r.err = "" THEN iv ELSE <<>>, r.err, r.ret, NoSource), r)
    /\ UNCHANGED <<now, created, supplied, pending, later, heap>>

\* the names a call may give: the registered ones and one that is not
AlgNames == DOMAIN _config.algSettings \cup {"nope"}

AlgArgs == {<<>>} \cup {<<n>> : n \in AlgNames}

\* the last call was an encode that returned a token
HasToken == last.op \in {"encodeString", "encodeBuffer"} /\ last.err = ""

\* the encode the token of the last call comes from, and the name its
\* prefix is replaced by (its own name when the token is left as it is)
Source(to) ==
    [op |-> last.op, val |-> last.arg, name |-> last.name, to |-> to,
     inst |-> last.from.inst]

\* obfuscator.decodeString(val)
DecodeString(val, from) ==
    \E r \in {decodeString(Self, val)} :
    /\ SetSelf(r.self)
    /\ last' = WithKey(Call("decodeString", val, <<>>, "", <<>>, r.err, r.ret, from), r)
    /\ UNCHANGED <<now, created, supplied, pending, later, heap>>

\* obfuscator.decodeBuffer(val)
DecodeBuffer(val, from) ==
    \E r \in {decodeBuffer(Self, val)} :
    /\ SetSelf(r.self)
    /\ last' = WithKey(Call("decodeBuffer", val, <<>>, "", <<>>, r.err, r.ret, from), r)
    /\ UNCHANGED <<now, created, supplied, pending, later, heap>>

\* the token of the last call is handed to a new instance built with the
\* same arguments, new Obfuscator(...created); the call recorded is from
\* now on one of an earlier instance
Restart ==
    \E r \in {constructor(created)} :
    /\ SetSelf(r.self)
    /\ supplied' = Given(created)
    /\ last' = [last EXCEPT !.from.inst = "earlier"]
    /\ UNCHANGED <<now, created, pending, later, heap>>

Next ==
    \/ \E args \in ReconfigArgs : Configure(args)
    \/ \E val \in Strings, algArgs \in AlgArgs, iv \in IVs : EncodeString(val, algArgs, iv)
    \/ \E val \in Buffers, algArgs \in AlgArgs, iv \in IVs : EncodeBuffer(val, algArgs, iv)
    \/ \E val \in MalformedTokens \cup UnknownTokens : DecodeString(val, NoSource)
    \/ \E val \in MalformedTokens \cup UnknownTokens : DecodeBuffer(val, NoSource)
    \/ HasToken /\ \E n \in AlgNames : DecodeString(SwapPrefix(last.ret, last.name, n), Source(n))
    \/ HasToken /\ \E n \in AlgNames : DecodeBuffer(SwapPrefix(last.ret, last.name, n), Source(n))
    \/ Restart

Spec == Init /\ [][Next]_vars

(***************************************************************************)
(* The resolver on its own: an instance built without a config is handed   *)
(* one config of a family that covers the shapes of a registry (chains,    *)
(* cycles, dangling bases, wrong names, every order of the keys), and the  *)
(* later variant of the class is built from the same config.               *)
(***************************************************************************)

ResolveKeys == {"foo", "bar", "baz"}

\* the orders some of the keys can be written in
Orders(keys) ==
    {o \in UNION {[1..n -> keys] : n \in 1..Cardinality(keys)} :
        \A i, j \in DOMAIN o : i # j => o[i] # o[j]}

\* the bases an entry is given: none, the empty string, a default, a key,
\* a name that is not registered
Bases == {Absent, "", "DEFAULT", "nope"} \cup ResolveKeys

\* the password each key is given, if any
PasswordOf(key) ==
    CASE key = "bar" -> "UnitTests"
      [] key = "baz" -> undefined
      [] OTHER -> Absent

\* the configs of the family: every order, every base for every key, at
\* most one entry under a wrong name, DEFAULT left alone or based on foo
ResolveConfigs(keys) ==
    UNION {
        {Config((IF d = Absent THEN <<>> ELSE <<"DEFAULT">>) \o o,
                [a \in Range(o) \cup (IF d = Absent THEN {} ELSE {"DEFAULT"}) |->
                    IF a = "DEFAULT" THEN Entry("DEFAULT", d, Absent, Absent, Absent, Absent)
                    ELSE Entry(IF a = wrong THEN "oops" ELSE a, b[a], PasswordOf(a),
                               Absent, Absent, Absent)]) :
            b \in [Range(o) -> Bases], wrong \in Range(o) \cup {Absent}, d \in {Absent, "foo"}} :
        o \in Orders(keys)}

ResolveArgs(keys) == {<<>>} \cup {<<c>> : c \in ResolveConfigs(keys)}

\* new Obfuscator(), and a caller about to call configure
InitResolve ==
    \E args \in ResolveArgs(ResolveKeys) :
    \E r \in {constructor(<<>>)} :
        /\ _cache = r.self._cache
        /\ _config = r.self._config
        /\ _configLocked = r.self._configLocked
        /\ now = ClockStart
        /\ created = <<>>
        /\ supplied = <<>>
        /\ last = Call("new", <<>>, <<>>, "", <<>>, "", <<>>, NoSource)
        /\ pending = args
        /\ later = NotBuilt
        /\ heap = <<>>

\* obfuscator.configure(...pending)
ConfigurePending == Configure(pending)

\* new Obfuscator(...pending) of the later variant
LaterConstruct ==
    \E r \in {laterConstruct(pending)} :
        /\ later' = [built |-> TRUE, err |-> r.err, config |-> r.config,
                     algSettings |-> r.algSettings, passes |-> r.passes]
        /\ UNCHANGED <<_cache, _config, _configLocked, now, created, supplied, last, pending,
                     heap>>

NextResolve == ConfigurePending \/ LaterConstruct

SpecResolve == InitResolve /\ [][NextResolve]_vars

(***************************************************************************)
(* The expiry predicate on its own: _isAfterCheckDate(limit, now) is       *)
(* called with a limit, or without one, at an instant around the start or  *)
(* the end of a day.                                                       *)
(***************************************************************************)

\* the start of some days in UTC, in seconds since the epoch, as a calendar
\* gives them
StartOfDay ==
    [d \in {"1970-12-31", "2019-12-31", "2020-01-01", "2020-01-02", "2021-01-01",
            "2024-02-29", "2024-03-01", "2030-12-31"} |->
        CASE d = "1970-12-31" -> 31449600
          [] d = "2019-12-31" -> 1577750400
          [] d = "2020-01-01" -> 1577836800
          [] d = "2020-01-02" -> 1577923200
          [] d = "2021-01-01" -> 1609459200
          [] d = "2024-02-29" -> 1709164800
          [] d = "2024-03-01" -> 1709251200
          [] d = "2030-12-31" -> 1924905600]

\* the limits given: none, and the days of the calendar
LimitArgs == {<<>>} \cup {<<d>> : d \in DOMAIN StartOfDay}

\* the instants given: the start of each day, and one second, one day and
\* one year off it
Instants ==
    UNION {{t - 31536000, t - 86400, t - 1, t, t + 1, t + 86400, t + 31536000} :
              t \in {StartOfDay[d] : d \in DOMAIN StartOfDay}}

\* the settings whose doNotEncodeAfter is the limit given
LimitSettings(args) == IF Len(args) = 0 THEN EmptyObject ELSE [doNotEncodeAfter |-> args[1]]

\* a caller about to call Obfuscator._isAfterCheckDate(...pending, now)
InitExpiry ==
    \E args \in LimitArgs, t \in Instants :
    \E r \in {constructor(<<>>)} :
        /\ _cache = r.self._cache
        /\ _config = r.self._config
        /\ _configLocked = r.self._configLocked
        /\ now = t
        /\ created = <<>>
        /\ supplied = <<>>
        /\ last = Call("new", <<>>, <<>>, "", <<>>, "", <<>>, NoSource)
        /\ pending = args
        /\ later = NotBuilt
        /\ heap = <<>>

\* Obfuscator._isAfterCheckDate(...pending, now)
IsAfterCheckDate ==
    /\ last' = Call("_isAfterCheckDate", pending, <<>>, "", <<>>, "",
                    <<_isAfterCheckDate(LimitSettings(pending), now)>>, NoSource)
    /\ UNCHANGED <<_cache, _config, _configLocked, now, created, supplied, pending, later, heap>>

SpecExpiry == InitExpiry /\ [][IsAfterCheckDate]_vars

\* C13: _isAfterCheckDate is false when no limit is given, and otherwise
\* true exactly when now is at or after the start of the day of the limit.
ExpiryPredicate ==
    last.op = "_isAfterCheckDate"
        => last.ret[1] = (Len(pending) = 1 /\ now >= StartOfDay[pending[1]])

\* the instant the day of the limit starts counts as expired
ExpiryBoundaryCase ==
    /\ last.op = "_isAfterCheckDate"
    /\ pending = <<"2020-01-01">>
    /\ now = StartOfDay["2020-01-01"]
    /\ last.ret[1] = TRUE

(***************************************************************************)
(* configure(config) on the objects it is handed.  The heap is a sequence  *)
(* of objects, an object is named by its position: a config holds a        *)
(* defaultAlg and the position of its algSettings (0 for none), an         *)
(* algSettings object holds its keys in order and the position of the      *)
(* entry under each key, an entry holds its fields.                        *)
(***************************************************************************)

\* settings[k], undefined when settings has no key k
Field(settings, k) == IF k \in DOMAIN settings THEN settings[k] ELSE undefined

\* the entries the caller wrote in the config about to be resolved
PendingEntries ==
    IF Len(pending) = 1 /\ "algSettings" \in DOMAIN pending[1]
    THEN pending[1].algSettings ELSE EmptyObject

\* the instance new Obfuscator() gives, before any configure call
Unconfigured == constructor(<<>>).self

\* Obfuscator.DEFAULT_CONFIG, its algSettings and its DEFAULT entry, then
\* the config of the caller, its algSettings and its entries in key order
HeapOf(args) ==
    <<[kind |-> "config", defaultAlg |-> DEFAULT_CONFIG.defaultAlg, algSettings |-> 2],
      [kind |-> "algSettings", order |-> DEFAULT_CONFIG.order,
       at |-> [a \in DOMAIN DEFAULT_CONFIG.algSettings |-> 3]],
      [kind |-> "entry", fields |-> DEFAULT_CONFIG.algSettings[DefaultAlgName]]>>
    \o IF Len(args) = 0 THEN <<>>
       ELSE <<[kind |-> "config", defaultAlg |-> Field(args[1], "defaultAlg"),
               algSettings |-> 5],
              [kind |-> "algSettings", order |-> args[1].order,
               at |-> [a \in Range(args[1].order) |->
                          5 + CHOOSE i \in 1..Len(args[1].order) : args[1].order[i] = a]]>>
            \o [i \in 1..Len(args[1].order) |->
                   [kind |-> "entry", fields |-> args[1].algSettings[args[1].order[i]]]]

\* the algSettings object at position m, as a value
ValueOfMap(H, m) == [a \in DOMAIN H[m].at |-> H[H[m].at[a]].fields]

\* the config object at position c, as a value
ValueOfConfig(H, c) ==
    [defaultAlg |-> H[c].defaultAlg,
     algSettings |-> ValueOfMap(H, H[c].algSettings),
     order |-> H[H[c].algSettings].order]

\* extend(true, target, options) for two entries: the defined fields of
\* options are written to target
extendEntryOnHeap(H, target, options) ==
    [H EXCEPT ![target].fields = extendSettings(@, H[options].fields)]

\* extend(true, target, options) for two algSettings objects, from the i-th
\* key of options on: the entry of options is merged into the entry target
\* has under the key, or into a new object put under it
RECURSIVE extendMapOnHeap(_, _, _, _)
extendMapOnHeap(H, target, options, i) ==
    IF i > Len(H[options].order) THEN H
    ELSE Let(H[options].order[i],
             LAMBDA name :
                 IF name \in DOMAIN H[target].at
                 THEN extendMapOnHeap(
                          extendEntryOnHeap(H, H[target].at[name], H[options].at[name]),
                          target, options, i + 1)
                 ELSE extendMapOnHeap(
                          extendEntryOnHeap(
                              [Append(H, [kind |-> "entry", fields |-> EmptyObject])
                                  EXCEPT ![target].at = [n \in DOMAIN @ \cup {name} |->
                                                            IF n = name THEN Len(H) + 1
                                                            ELSE @[n]],
                                         ![target].order = Append(@, name)],
                              Len(H) + 1, H[options].at[name]),
                          target, options, i + 1))

\* extend(deep, target, options) for two config objects: a defined
\* defaultAlg is copied; algSettings is merged into the target's own object
\* (a new one when it has none) when deep, and handed over as it is
\* otherwise
extendConfigOnHeap(H, deep, target, options) ==
    Let(IF H[options].defaultAlg # undefined
        THEN [H EXCEPT ![target].defaultAlg = H[options].defaultAlg] ELSE H,
        LAMBDA H0 :
            IF H0[options].algSettings = 0 THEN H0
            ELSE IF ~deep THEN [H0 EXCEPT ![target].algSettings = H0[options].algSettings]
            ELSE IF H0[target].algSettings # 0
            THEN extendMapOnHeap(H0, H0[target].algSettings, H0[options].algSettings, 1)
            ELSE extendMapOnHeap(
                     [Append(H0, [kind |-> "algSettings", order |-> <<>>, at |-> EmptyObject])
                         EXCEPT ![target].algSettings = Len(H0) + 1],
                     Len(H0) + 1, H0[options].algSettings, 1))

\* extend(deep, {}, Obfuscator.DEFAULT_CONFIG, config): the heap after it and
\* the position of the new object; the defaults are at 1, the config of the
\* caller, if one is given, at 4
extendOnHeap(H, deep, args) ==
    Let(extendConfigOnHeap(
            Append(H, [kind |-> "config", defaultAlg |-> undefined, algSettings |-> 0]),
            deep, Len(H) + 1, 1),
        LAMBDA H1 :
            [heap |-> IF Len(args) = 0 THEN H1
                      ELSE extendConfigOnHeap(H1, deep, Len(H) + 1, 4),
             newConfig |-> Len(H) + 1])

\* const newConfig = extend({}, Obfuscator.DEFAULT_CONFIG, config), not deep
newConfigShallow(H, args) == extendOnHeap(H, FALSE, args)

\* const newConfig = extend(true, {}, Obfuscator.DEFAULT_CONFIG, config)
newConfigOnHeap(H, args) == extendOnHeap(H, TRUE, args)

\* the body of the for loop of one pass for the key alg of the algSettings
\* object at m: delete algCfg.base writes to the entry, the assignment to
\* the algSettings object
resolveStepOnHeap(st, m, alg) ==
    Let(st.heap[m].at[alg],
        LAMBDA algCfg :
            IF Falsy(st.heap[algCfg].fields, "base") THEN st
            ELSE IF st.heap[algCfg].fields.base \notin DOMAIN st.heap[m].at
            THEN [st EXCEPT !.err = UnknownAlgError(st.heap[algCfg].fields.base)]
            ELSE Let(st.heap[m].at[st.heap[algCfg].fields.base],
                     LAMBDA baseCfg :
                         IF Falsy(st.heap[baseCfg].fields, "base")
                         THEN [st EXCEPT
                                  !.numProcessed = @ + 1,
                                  !.heap =
                                      [extendEntryOnHeap(
                                           extendEntryOnHeap(
                                               Append([@ EXCEPT ![algCfg].fields =
                                                                    DeleteKey(@, "base")],
                                                      [kind |-> "entry",
                                                       fields |-> EmptyObject]),
                                               Len(@) + 1, baseCfg),
                                           Len(@) + 1, algCfg)
                                          EXCEPT ![m].at[alg] = Len(st.heap) + 1]]
                         ELSE [st EXCEPT !.numWithBase = @ + 1]))

\* the for loop of one pass, from the i-th key on
RECURSIVE resolvePassOnHeap(_, _, _)
resolvePassOnHeap(st, m, i) ==
    IF i > Len(st.heap[m].order) \/ st.err # "" THEN st
    ELSE resolvePassOnHeap(resolveStepOnHeap(st, m, st.heap[m].order[i]), m, i + 1)

\* the do ... while (numWithBase) loop
RECURSIVE resolveLoopOnHeap(_, _)
resolveLoopOnHeap(H, m) ==
    Let(resolvePassOnHeap([heap |-> H, numProcessed |-> 0, numWithBase |-> 0, err |-> ""],
                          m, 1),
        LAMBDA st :
            IF st.err # "" THEN [heap |-> st.heap, err |-> st.err]
            ELSE IF st.numWithBase > 0 /\ st.numProcessed = 0
            THEN [heap |-> st.heap, err |-> CircularError]
            ELSE IF st.numWithBase > 0 THEN resolveLoopOnHeap(st.heap, m)
            ELSE [heap |-> st.heap, err |-> ""])

\* configure(config) of an instance that is not configured: the heap after
\* it, the error thrown and the position of newConfig
configureOnHeap(H, args) ==
    Let(newConfigOnHeap(H, args),
        LAMBDA n :
            Let(n.heap[n.newConfig].algSettings,
                LAMBDA m :
                    Let(checkNames(ValueOfMap(n.heap, m), n.heap[m].order, 1),
                        LAMBDA nameErr :
                            IF nameErr # ""
                            THEN [heap |-> n.heap, err |-> nameErr, newConfig |-> n.newConfig]
                            ELSE Let(resolveLoopOnHeap(n.heap, m),
                                     LAMBDA r : [heap |-> r.heap, err |-> r.err,
                                                 newConfig |-> n.newConfig]))))

\* the calls made on one heap
MaxCalls == 2

\* the defaults and the config a caller holds, before any call
InitShared ==
    \E args \in ResolveArgs({"foo", "bar"}) :
    \E r \in {constructor(<<>>)} :
        /\ _cache = r.self._cache
        /\ _config = r.self._config
        /\ _configLocked = r.self._configLocked
        /\ now = ClockStart
        /\ created = <<>>
        /\ supplied = <<>>
        /\ last = Call("new", <<>>, <<>>, "", <<>>, "", <<>>, NoSource)
        /\ pending = args
        /\ later = NotBuilt
        /\ heap = HeapOf(args)

\* new Obfuscator(...args) or configure(...args) of a new instance, with the
\* config the caller holds or with none
ConfigureOnHeap(args) ==
    /\ Len(supplied) < MaxCalls
    /\ \E r \in {configureOnHeap(heap, args)} :
           /\ heap' = r.heap
           /\ supplied' = Append(supplied, args)
           /\ last' = Call("configure", args, <<>>, "", <<>>, r.err,
                           IF r.err = "" THEN ValueOfConfig(r.heap, r.newConfig) ELSE <<>>,
                           NoSource)
    /\ UNCHANGED <<_cache, _config, _configLocked, now, created, pending, later>>

SpecShared == InitShared /\ [][\E args \in {<<>>, pending} : ConfigureOnHeap(args)]_vars

\* C25: the objects the process held before the calls, the three of
\* Obfuscator.DEFAULT_CONFIG and those of the caller's config, are as they
\* were after every construction and configure call, whether it threw or
\* not; each call ends as configure does on the values, and a call without
\* a config ends with the built-in registry.
DefaultsReadOnly ==
    /\ Len(heap) >= Len(HeapOf(pending))
    /\ SubSeq(heap, 1, Len(HeapOf(pending))) = HeapOf(pending)
    /\ last.op = "configure"
           => \A r \in {resolveConfig(last.arg)} :
                  /\ last.err = r.err
                  /\ r.err = "" => last.ret = r.config
    /\ (last.op = "configure" /\ last.arg = <<>>)
           => (last.err = "" /\ last.ret = Unconfigured._config)

\* after a call with a config that bases foo on bar, which resolved foo,
\* a call without a config gave the built-in registry
DefaultsAfterResolveCase ==
    /\ Len(supplied) = 2
    /\ supplied[1] = pending
    /\ {"foo", "bar"} \subseteq DOMAIN PendingEntries
    /\ Field(PendingEntries["foo"], "base") = "bar"
    /\ Field(PendingEntries["bar"], "base") = "DEFAULT"
    /\ last.arg = <<>>
    /\ last.err = ""
    /\ last.ret = Unconfigured._config
    /\ Len(heap) > Len(HeapOf(pending)) + 6

(***************************************************************************)
(* Properties of the instance (specification Spec)                         *)
(***************************************************************************)

EncodeOps == {"encodeString", "encodeBuffer"}

DecodeOps == {"decodeString", "decodeBuffer"}

\* the last call is a decode, made on this instance, of a token that the
\* matching encode of this instance returned
DecodedOwnToken ==
    /\ last.op \in DecodeOps
    /\ last.from.inst = "this"
    /\ last.from.op = (IF last.op = "decodeString" THEN "encodeString" ELSE "encodeBuffer")

\* the last call is a decode, made on this instance, of a token of three
\* parts whose first part is the registered name last.from.to
DecodedUnder ==
    /\ last.op \in DecodeOps
    /\ last.from.inst = "this"
    /\ last.from.op \in EncodeOps
    /\ last.from.to \in DOMAIN _config.algSettings

\* the last call is an encode, made on this instance, under a registered name
EncodedUnder ==
    /\ last.op \in EncodeOps
    /\ last.from.inst = "this"
    /\ last.name \in DOMAIN _config.algSettings

\* a password generateKey must refuse: absent, or shorter than 8 characters
TooShort(password) == password = undefined \/ Len(password) < 8

\* C1: a token that encodeString or encodeBuffer returned decodes, on the
\* same instance and under its own name, without an error and to the value
\* that was encoded (the empty one included).
RoundTrip ==
    (DecodedOwnToken /\ last.from.to = last.from.name)
        => (last.err = "" /\ last.ret = last.from.val)

\* the round trip of a string under an algorithm whose stringEncoding is hex
RoundTripHexCase ==
    /\ DecodedOwnToken
    /\ last.op = "decodeString"
    /\ last.from.to = last.from.name
    /\ last.from.name \in DOMAIN _config.algSettings
    /\ Field(_config.algSettings[last.from.name], "stringEncoding") = "hex"
    /\ last.err = ""
    /\ last.ret # last.from.val

\* the configs whose argument lists completed a configuration of the instance
Installed == {supplied[i][1] : i \in {j \in DOMAIN supplied : Len(supplied[j]) = 1}}

\* the entries a caller gave for the key a
GivenEntries(a) ==
    {c.algSettings[a] : c \in {d \in Installed : "algSettings" \in DOMAIN d
                                                  /\ a \in DOMAIN d.algSettings}}

\* C3: when the caller's entry for a name defines a password key, whatever
\* its value (undefined, "" and "123" included), the resolved entry's
\* password is that value and not its base's, and an encode under the name
\* fails with "Password is too short" when the value is too short.
PasswordLeakGuard ==
    \A a \in DOMAIN _config.algSettings :
        \A e \in {g \in GivenEntries(a) : "password" \in DOMAIN g} :
            /\ Field(_config.algSettings[a], "password") = e.password
            /\ (EncodedUnder /\ last.name = a /\ TooShort(e.password))
                   => last.err = PasswordError(a)

\* an encode under foo = { base: DEFAULT, password: undefined } returned a token
PasswordLeakCase ==
    /\ EncodedUnder
    /\ last.name = "foo"
    /\ \E e \in GivenEntries("foo") : "password" \in DOMAIN e /\ e.password = undefined
    /\ last.err = ""
    /\ Field(_config.algSettings["foo"], "password") = DefaultPassword

\* the resolved fields that decide the token: cipher, key derivation, encodings
CipherFields == {"alg", "password", "salt", "iterations", "hash", "stringEncoding", "binEncoding"}

SameResolved(a, b) ==
    \A k \in CipherFields :
        /\ (k \in DOMAIN _config.algSettings[a]) = (k \in DOMAIN _config.algSettings[b])
        /\ k \in DOMAIN _config.algSettings[a]
               => _config.algSettings[a][k] = _config.algSettings[b][k]

\* C4: when two registered names resolve to the same cipher, key derivation
\* inputs and encodings, a token encoded under one of them decodes to the
\* original value after its prefix is replaced by the other name.
Interchangeable ==
    (/\ DecodedOwnToken
     /\ last.from.to # last.from.name
     /\ last.from.to \in DOMAIN _config.algSettings
     /\ last.from.name \in DOMAIN _config.algSettings
     /\ SameResolved(last.from.name, last.from.to))
        => (last.err = "" /\ last.ret = last.from.val)

\* a token of foo = { base: DEFAULT } was decoded under DEFAULT, or one of
\* DEFAULT under foo, and gave the original value
InterchangeableCase ==
    /\ DecodedOwnToken
    /\ {last.from.name, last.from.to} = {"foo", "DEFAULT"}
    /\ "foo" \in DOMAIN _config.algSettings
    /\ SameResolved("foo", "DEFAULT")
    /\ last.err = ""
    /\ last.ret = last.from.val
    /\ Len(last.ret) > 0

\* the instance was given bar = { base: foo, password: "UnitTests" } and
\* foo = { base: DEFAULT }, and the last call decoded, under foo or DEFAULT,
\* a token encoded under bar
DecodedBarUnderBase ==
    /\ DecodedUnder
    /\ Installed = {ChainConfig}
    /\ last.from.name = "bar"
    /\ last.from.to \in {"foo", "DEFAULT"}

LazyPasswordCheck ==
    /\ (EncodedUnder /\ ~_isAfterCheckDate(_config.algSettings[last.name], now))
           => (last.err = PasswordError(last.name)
                   <=> TooShort(Field(_config.algSettings[last.name], "password")))
    /\ DecodedUnder
           => (last.err = PasswordError(last.from.to)
                   <=> TooShort(Field(_config.algSettings[last.from.to], "password")))
    /\ last.op \in {"new", "configure"}
           => \A a \in DOMAIN _config.algSettings \cup {"foo", "bar"} :
                  last.err # PasswordError(a)

\* an encode under foo = { name: "foo" }, whose resolved password is absent,
\* threw an error that is not "Password is too short: foo"
AbsentPasswordCase ==
    /\ EncodedUnder
    /\ last.name = "foo"
    /\ "password" \notin DOMAIN _config.algSettings["foo"]
    /\ last.err = LengthTypeError

\* the number of configs of the caller installed on the instance
NumInstalled == Cardinality({i \in DOMAIN supplied : Len(supplied[i]) = 1})

\* C2: once the instance has completed a configuration (its constructor was
\* given a config, or a configure call succeeded on it), every configure
\* call throws "Already configured" and changes nothing; at most one config
\* of the caller is ever installed on an instance.
OneShotConfiguration ==
    /\ [](NumInstalled <= 1)
    /\ [][(supplied # <<>> /\ last'.op = "configure" /\ last'.from.inst = "this")
              => (/\ last'.err = AlreadyConfiguredError
                  /\ UNCHANGED <<_cache, _config, _configLocked, supplied>>)]_vars

\* an instance built without a config was configured once, and the next
\* configure call threw "Already configured"
OneShotCase ==
    /\ created = <<>>
    /\ Len(supplied) = 1
    /\ last.op = "configure"
    /\ last.from.inst = "this"
    /\ last.err = AlreadyConfiguredError

\* the positions of the colons of a string
Colons(val) == {i \in 1..Len(val) : val[i] = ":"}

\* the characters of a string before its first colon
FirstPart(val) == SubSeq(val, 1, Min(Colons(val) \cup {Len(val) + 1}) - 1)

\* the registered names
Registered == DOMAIN _config.algSettings

\* C11: decodeString and decodeBuffer of a string that does not split on
\* ":" into exactly three parts throw "Malformed encoded string" and return
\* nothing, also when its first part is no registered name.
MalformedRefused ==
    (last.op \in DecodeOps /\ Cardinality(Colons(last.arg)) # 2)
        => (last.err = MalformedError /\ last.ret = <<>>)

\* a string of four parts under an unregistered name was refused as
\* malformed by an instance that had a key in its cache
MalformedCase ==
    /\ last.op \in DecodeOps
    /\ last.from.inst = "this"
    /\ last.arg = Text("nope:1:2:3")
    /\ "nope" \notin Registered
    /\ last.err = MalformedError
    /\ DOMAIN _cache # {}

ExpiredNames ==
    {a \in Registered : Field(_config.algSettings[a], "doNotEncodeAfter") = PastDate}

\* C14: every encodeString and encodeBuffer under an algorithm whose
\* doNotEncodeAfter has passed throws "Alg has expired for encoding: <alg>"
\* and returns nothing; decodeString and decodeBuffer of a token under that
\* name are not refused for the date, and give the original value of a token
\* made under a name with the same cipher fields.
ExpiryGatesEncodeOnly ==
    /\ (EncodedUnder /\ last.name \in ExpiredNames)
           => (last.err = ExpiredError(last.name) /\ last.ret = <<>>)
    /\ (DecodedUnder /\ last.from.to \in ExpiredNames)
           => /\ last.err # ExpiredError(last.from.to)
              /\ (DecodedOwnToken /\ last.from.name \in Registered
                      /\ SameResolved(last.from.name, last.from.to))
                     => (last.err = "" /\ last.ret = last.from.val)

\* a token of DEFAULT was decoded under the expired foo = { base: DEFAULT }
ExpiredDecodeCase ==
    /\ DecodedOwnToken
    /\ last.from.name = "DEFAULT"
    /\ last.from.to = "foo"
    /\ "foo" \in ExpiredNames
    /\ last.err = ""
    /\ Len(last.ret) > 0
    /\ last.ret = last.from.val

\* the errors configure throws while it resolves a config
ResolveErrors ==
    {NameError(a) : a \in {"foo", "bar", "baz"}}
    \cup {UnknownAlgError(a) : a \in {"foo", "bar", "baz"}}
    \cup {CircularError}

\* C15: a configure that throws for a wrong name, an unknown base or a
\* circular dependency leaves _config, _cache and _configLocked as they were;
\* after it an instance that was not configured still accepts every config
\* that resolves, and is configured by it.
AllOrNothingConfigure ==
    /\ [][(last'.op = "configure" /\ last'.from.inst = "this" /\ last'.err # "")
              => UNCHANGED <<_cache, _config, _configLocked>>]_vars
    /\ []((last.op = "configure" /\ last.from.inst = "this"
               /\ last.err \in ResolveErrors /\ ~_configLocked)
              => \A args \in ReconfigArgs :
                     \A again \in {configure(Self, args)} :
                         resolveConfig(args).err = ""
                             => /\ again.err = ""
                                /\ again.self._configLocked
                                /\ again.self._config = resolveConfig(args).config)

\* configure threw for a wrong name on an instance that holds a key and is
\* not configured
FailedConfigureCase ==
    /\ last.op = "configure"
    /\ last.from.inst = "this"
    /\ last.err = NameError("foo")
    /\ ~_configLocked
    /\ "DEFAULT" \in DOMAIN _cache
    /\ supplied = <<>>

\* the call reached getKey with the settings registered under name a
UsesKeyOf(call, a) ==
    /\ call.from.inst = "this"
    /\ \/ call.op \in EncodeOps /\ call.name = a /\ call.err # ExpiredError(a)
       \/ call.op \in DecodeOps /\ Cardinality(Colons(call.arg)) = 2
              /\ FirstPart(call.arg) = Text(a)

\* C16: while one registry is installed the keys in the cache stay as they
\* are; an encode or decode under a name whose key is cached does not run
\* generateKey and works with the cached key; one under a name without a
\* cached key runs generateKey and, when that returns, caches the key it
\* works with.
DeriveOncePerName ==
    [][/\ (last'.from.inst = "this" /\ ~(last'.op = "configure" /\ last'.err = ""))
           => \A a \in DOMAIN _cache : a \in DOMAIN _cache' /\ _cache'[a] = _cache[a]
       /\ \A a \in Registered :
              UsesKeyOf(last', a)
                  => IF a \in DOMAIN _cache
                     THEN ~last'.derived /\ last'.key = _cache[a]
                     ELSE /\ last'.derived
                          /\ last'.key # <<>> => (a \in DOMAIN _cache' /\ _cache'[a] = last'.key)
                          /\ last'.key = <<>> => (last'.err # "" /\ a \notin DOMAIN _cache')]_vars

\* a token made under bar, which generated its key, was decoded with the
\* cached key
CachedKeyCase ==
    /\ DecodedOwnToken
    /\ last.from.name = "bar"
    /\ last.from.to = "bar"
    /\ last.err = ""
    /\ ~last.derived
    /\ "bar" \in DOMAIN _cache
    /\ last.key = _cache["bar"]
    /\ Len(last.key) > 0

\* C17: every key in the cache is the key generateKey gives for the
\* settings now registered under its name, and a successful configure
\* leaves no key in the cache; so a key generated under a registry that has
\* been replaced is never used.
CacheCoherent ==
    /\ [](\A n \in DOMAIN _cache :
              /\ n \in Registered
              /\ \A g \in {generateKey(_config.algSettings[n])} :
                     g.err = "" /\ _cache[n] = g.key)
    /\ [][(last'.op = "configure" /\ last'.from.inst = "this" /\ last'.err = "")
              => _cache' = EmptyObject]_vars
    /\ []((last.from.inst = "this" /\ last.op \in EncodeOps \cup DecodeOps
               /\ last.key # <<>>)
              => \E n \in Registered :
                     /\ UsesKeyOf(last, n)
                     /\ last.key = generateKey(_config.algSettings[n]).key)

\* a new password was configured for DEFAULT, and the encode after that
\* generated the key of the new password and worked with it
RekeyedCase ==
    /\ supplied = <<<<RekeyConfig>>>>
    /\ last.op \in EncodeOps
    /\ last.from.inst = "this"
    /\ last.name = "DEFAULT"
    /\ last.err = ""
    /\ last.derived
    /\ last.key = generateKey(_config.algSettings["DEFAULT"]).key
    /\ last.key # generateKey(DEFAULT_CONFIG.algSettings["DEFAULT"]).key

EncodeCheckOrder ==
    /\ []((last.op \in EncodeOps /\ last.from.inst = "this")
              => /\ last.name \notin Registered
                     => (last.err = UnknownAlgError(last.name)
                             /\ ~last.derived /\ last.key = <<>>)
                 /\ last.name \in ExpiredNames
                     => (last.err = ExpiredError(last.name)
                             /\ ~last.derived /\ last.key = <<>>))
    /\ [][(last'.op \in EncodeOps /\ last'.from.inst = "this"
               /\ last'.err \in {UnknownAlgError(last'.name), ExpiredError(last'.name)})
              => UNCHANGED <<_cache, _config, _configLocked>>]_vars

\* an encode under foo, expired and with the password "123", was refused for
\* the date, with no key of foo in the cache
ExpiredBeforeKeyCase ==
    /\ EncodedUnder
    /\ last.name = "foo"
    /\ "foo" \in ExpiredNames
    /\ _config.algSettings["foo"].password = "123"
    /\ last.err = ExpiredError("foo")
    /\ "foo" \notin DOMAIN _cache

\* C24: every token encodeString and encodeBuffer return has exactly two
\* colons and the name of the algorithm used before the first, and the
\* decode of it on the same instance is not refused as malformed, whatever
\* name configure accepted for the algorithm.
TokenShape ==
    /\ (last.op \in EncodeOps /\ last.from.inst = "this" /\ last.err = "")
           => /\ Cardinality(Colons(last.ret)) = 2
              /\ FirstPart(last.ret) = Text(last.name)
    /\ (DecodedOwnToken /\ last.from.to = last.from.name)
           => last.err # MalformedError

\* the token made under the name "a:b" was refused as malformed by the
\* instance that made it
ColonNameCase ==
    /\ DecodedOwnToken
    /\ last.from.name = "a:b"
    /\ last.from.to = "a:b"
    /\ "a:b" \in Registered
    /\ Cardinality(Colons(last.arg)) = 3
    /\ last.err = MalformedError

\* the registered names whose password generateKey refuses as too short
ShortNames ==
    {a \in DOMAIN _config.algSettings :
        generateKey(_config.algSettings[a]).err = PasswordError(a)}

\* C26: a name whose password is too short never has a key in the cache;
\* every encode that is not refused for the date and every decode of a
\* three-part string under it runs generateKey and throws "Password is too
\* short: <name>", and the call leaves the cache, with the keys of the
\* other names, as it was.
FailedKeyNotCached ==
    /\ [](\A a \in ShortNames :
              /\ a \notin DOMAIN _cache
              /\ UsesKeyOf(last, a)
                     => (last.err = PasswordError(a) /\ last.derived
                             /\ last.key = <<>> /\ last.ret = <<>>))
    /\ [][(last'.from.inst = "this" /\ last'.op \in EncodeOps \cup DecodeOps
               /\ \E a \in DOMAIN _config.algSettings : last'.err = PasswordError(a))
              => UNCHANGED <<_cache, _config, _configLocked>>]_vars

\* a decode under foo, whose password is "123", was refused while the key
\* of DEFAULT stayed in the cache
ShortPasswordCase ==
    /\ DecodedUnder
    /\ last.from.name = "DEFAULT"
    /\ last.from.to = "foo"
    /\ "foo" \in ShortNames
    /\ _config.algSettings["foo"].password = "123"
    /\ last.err = PasswordError("foo")
    /\ DOMAIN _cache = {"DEFAULT"}

\* C27: encodeString, encodeBuffer, decodeString and decodeBuffer leave
\* _config and _configLocked as they are, keep every key of the cache, and
\* add at most the key of the one algorithm the call is made under.
EncodeDecodeFrame ==
    [][(last'.from.inst = "this" /\ last'.op \in EncodeOps \cup DecodeOps)
           => /\ UNCHANGED <<_config, _configLocked>>
              /\ \A a \in DOMAIN _cache : a \in DOMAIN _cache' /\ _cache'[a] = _cache[a]
              /\ \A a \in DOMAIN _cache' \ DOMAIN _cache :
                     /\ UsesKeyOf(last', a)
                     /\ DOMAIN _cache' = DOMAIN _cache \cup {a}]_vars

\* a call under bar added the key of bar to a cache that held, and holds,
\* the key of DEFAULT
SecondKeyCase ==
    /\ last.op \in EncodeOps \cup DecodeOps
    /\ last.from.inst = "this"
    /\ UsesKeyOf(last, "bar")
    /\ last.derived
    /\ DOMAIN _cache = {"DEFAULT", "bar"}
    /\ _cache["bar"] = last.key
    /\ _cache["DEFAULT"] = generateKey(_config.algSettings["DEFAULT"]).key

(***************************************************************************)
(* Properties of the resolver (specification SpecResolve)                  *)
(***************************************************************************)

\* the registry the resolution starts from: the defaults with the entries
\* of the caller merged in
Candidate == extendConfig(pending).algSettings

HasBase(reg, a) == ~Falsy(reg[a], "base")

\* the base names of reg that are not registered
DanglingBases(reg) ==
    {reg[a].base : a \in {b \in DOMAIN reg : HasBase(reg, b) /\ reg[b].base \notin DOMAIN reg}}

\* the keys of reg whose entry is not named after its key
WrongNames(reg) == {a \in DOMAIN reg : Field(reg[a], "name") # a}

\* b is reached from a along one to n base references
RECURSIVE Reaches(_, _, _, _)
Reaches(reg, a, b, n) ==
    /\ HasBase(reg, a)
    /\ reg[a].base \in DOMAIN reg
    /\ (reg[a].base = b \/ (n > 1 /\ Reaches(reg, reg[a].base, b, n - 1)))

OnCycle(reg, a) == Reaches(reg, a, a, Cardinality(DOMAIN reg))

HasCycle(reg) == \E a \in DOMAIN reg : OnCycle(reg, a)

\* configure was called with the pending arguments
Configured == last.op = "configure"

NameCheckFirst ==
    \A reg \in {Candidate} :
        WrongNames(reg) # {}
            => /\ Configured => last.err \in {NameError(a) : a \in WrongNames(reg)}
               /\ later.built => later.err \in {NameError(a) : a \in WrongNames(reg)}

\* C8: when an entry of the merged registry is not named after its key,
\* configure(config) fails with "Name incorrectly set for alg: <key>" before
\* it resolves anything and installs nothing; the constructor of the later
\* variant, which checks a name when it resolves the entry, fails too, with
\* that error or with the error of a dangling base or of a cycle it met first.
NameChecked ==
    \A reg \in {Candidate} :
        WrongNames(reg) # {}
            => /\ Configured
                   => /\ last.err \in {NameError(a) : a \in WrongNames(reg)}
                      /\ Self = Unconfigured
               /\ later.built
                   => later.err \in {NameError(a) : a \in WrongNames(reg)}
                                    \cup {UnknownAlgError(b) : b \in DanglingBases(reg)}
                                    \cup (IF HasCycle(reg) THEN {CircularError} ELSE {})

\* the later variant reported the dangling base of an entry under a wrong
\* name, where configure(config) reported the name
NameCheckLateCase ==
    /\ Configured
    /\ later.built
    /\ \E reg \in {Candidate} :
           /\ WrongNames(reg) # {}
           /\ last.err \in {NameError(a) : a \in WrongNames(reg)}
           /\ later.err \in {UnknownAlgError(b) : b \in DanglingBases(reg)} \cup {CircularError}

\* C9 as stated: no entry of an installed registry has a base key, and
\* every entry is named after its key.
NoBaseField ==
    /\ \A a \in DOMAIN _config.algSettings :
           /\ "base" \notin DOMAIN _config.algSettings[a]
           /\ Field(_config.algSettings[a], "name") = a
    /\ (later.built /\ later.err = "")
           => \A a \in DOMAIN later.algSettings :
                  /\ "base" \notin DOMAIN later.algSettings[a]
                  /\ Field(later.algSettings[a], "name") = a

\* C9: no entry of an installed registry names a base (its base key is
\* absent or holds the empty string), and every entry is named after its key.
NoBaseLeft ==
    /\ \A a \in DOMAIN _config.algSettings :
           /\ Falsy(_config.algSettings[a], "base")
           /\ Field(_config.algSettings[a], "name") = a
    /\ (later.built /\ later.err = "")
           => \A a \in DOMAIN later.algSettings :
                  /\ Falsy(later.algSettings[a], "base")
                  /\ Field(later.algSettings[a], "name") = a

\* a chain foo -> bar -> baz was resolved by both variants; the later one
\* left the key base, holding the empty string, on every entry
NoBaseLeftCase ==
    /\ Configured
    /\ last.err = ""
    /\ later.built
    /\ later.err = ""
    /\ \E reg \in {Candidate} :
           /\ ResolveKeys \subseteq DOMAIN reg
           /\ Field(reg["foo"], "base") = "bar"
           /\ Field(reg["bar"], "base") = "baz"
    /\ \A a \in DOMAIN later.algSettings : Field(later.algSettings[a], "base") = ""
    /\ \A a \in DOMAIN _config.algSettings : "base" \notin DOMAIN _config.algSettings[a]

\* the keys whose entry, as the caller wrote it, names a base and gives no
\* password (none, or undefined)
BasedWithoutPassword ==
    {a \in DOMAIN PendingEntries :
        HasBase(PendingEntries, a) /\ Field(PendingEntries[a], "password") = undefined}

OwnFields(a) ==
    extendSettings(IF a = "DEFAULT" THEN extendSettings(EmptyObject, DefaultSettings)
                   ELSE EmptyObject,
                   IF a \in DOMAIN PendingEntries THEN PendingEntries[a] ELSE EmptyObject)

\* the nearest entry that sets the field k, from a up its base chain for at
\* most n steps; "" when none does
RECURSIVE NearestSetter(_, _, _)
NearestSetter(a, k, n) ==
    IF k \in DOMAIN OwnFields(a) THEN a
    ELSE IF n > 0 /\ HasBase([b \in {a} |-> OwnFields(a)], a)
    THEN NearestSetter(OwnFields(a).base, k, n - 1)
    ELSE ""

NumWithBase(reg) == Cardinality({a \in DOMAIN reg : HasBase(reg, a)})

\* C22: configure ends after at most as many passes as the merged registry
\* has entries with a base, plus one, whether it ends with a registry or
\* with an error; when it ends without an error no entry is left with a
\* base, and when it ends with "Circular dependency in alg config" one is.
\* The same bound holds for the constructor of the later variant.
PassesBounded ==
    \A reg \in {Candidate} :
        /\ Configured
               => \A r \in {resolveConfig(pending)} :
                      /\ last.err # AlreadyConfiguredError => r.err = last.err
                      /\ r.passes <= NumWithBase(reg) + 1
                      /\ r.err = "" => NumWithBase(r.config.algSettings) = 0
                      /\ r.err = CircularError => NumWithBase(r.config.algSettings) > 0
        /\ later.built => later.passes <= NumWithBase(reg) + 1

\* foo, bar, baz are written in this order, each based on the next and baz
\* on DEFAULT: each of the three passes resolved one entry
ThreePassesCase ==
    /\ Configured
    /\ last.err = ""
    /\ Len(pending) = 1
    /\ pending[1].order = <<"foo", "bar", "baz">>
    /\ NumWithBase(Candidate) = 3
    /\ resolveConfig(pending).passes = 3
    /\ NumWithBase(_config.algSettings) = 0

\* the config of the caller with its keys written in the order o
Reordered(o) == <<[pending[1] EXCEPT !.order = o]>>

\* C28: when configure succeeds for a config, it succeeds for the same
\* entries written in every other order, and installs the same registry:
\* only the number of passes depends on the order.
OrderIndependent ==
    (Configured /\ last.err = "" /\ Len(pending) = 1)
        => \A o \in {p \in Orders(Range(pending[1].order)) :
                        Len(p) = Len(pending[1].order)} :
               \A r \in {resolveConfig(Reordered(o))} :
                   /\ r.err = ""
                   /\ r.config.algSettings = _config.algSettings

\* foo on bar, bar on baz, baz on DEFAULT, written derived-first, took three
\* passes; written base-first the same registry comes out of one
OrderChangesPassesCase ==
    /\ Configured
    /\ last.err = ""
    /\ Len(pending) = 1
    /\ pending[1].order = <<"foo", "bar", "baz">>
    /\ Field(PendingEntries["foo"], "base") = "bar"
    /\ Field(PendingEntries["bar"], "base") = "baz"
    /\ Field(PendingEntries["baz"], "base") = "DEFAULT"
    /\ resolveConfig(pending).passes = 3
    /\ resolveConfig(Reordered(<<"baz", "bar", "foo">>)).passes = 1
    /\ resolveConfig(Reordered(<<"baz", "bar", "foo">>)).config.algSettings
           = _config.algSettings

====
